---------------------------- MODULE Spec2Model ----------------------------
(***************************************************************************)
(* A model of pypn5180: the byte-range tag memory layer (nfc.py) on top    *)
(* of the ISO/IEC 15693 command layer (iso_iec_15693.py), and the RF       *)
(* transceive engine (pypn5180.py) on top of the PN5180 register codec     *)
(* (pypn5180hal.py).                                                       *)
(*                                                                         *)
(* Two layers are checked as two specifications over one set of variables: *)
(*   Spec           NfcReader.read / NfcReader.write against a tag whose   *)
(*                  answer to each RF command is the pair (flags, data)    *)
(*                  that transactionIsoIec15693 returns;                   *)
(*   SpecTransceive PN5180.transactionIsoIec15693 step by step against the *)
(*                  chip's registers.                                      *)
(* Calls of the command layer are taken as completed calls (the result of  *)
(* the coroutine), as every caller in the repository uses them.            *)
(***************************************************************************)
EXTENDS Integers, Sequences, FiniteSets, TLC

(***************************************************************************)
(* Bounds of the model.                                                    *)
(***************************************************************************)
\* largest block size of a tracked tag
MaxBlockSize == 4
\* largest number of blocks of a tracked tag
MaxBlocks == 2
\* largest byte offset of a read or write request
MaxOffset == 3
\* largest byte length of a read or write request
MaxLen == 3
\* number of write calls in one behaviour (reads are not limited)
MaxWrites == 1
\* longest time (ms) one poll of IRQ_STATUS, with its sleep, can take
MaxStep == 2

(***************************************************************************)
(* Program constants.                                                      *)
(***************************************************************************)
\* iso_iec_15693.CMD_CODE
READ_MULTIPLE_BLOCK == 35
WRITE_SINGLE_BLOCK == 33
\* iso_iec_15693.__init__: self.flags = 0x02
DefaultFlags == 2
\* request flag or-ed in when a UID is put in the frame
AddressedFlag == 32
\* flags of the no-answer result of transactionIsoIec15693
NoAnswerFlags == 255

VARIABLES
    tag,     \* NfcReader.tag: the tracked tag (uid, block_size, num_blocks,
             \* header_size, mem_size) or NoTag
    mem,     \* the tag's memory, one byte per address (the tag, not the program)
    pc,      \* "ready", "writing" (inside the chunk loop of write), or "done"
             \* (the call has ended and its caller has not yet taken the result)
    req,     \* the current or last call: op, offset, bytes (read) / data (write)
    wdata,   \* write: the padded buffer the chunk loop iterates over
    wnext,   \* write: index of the next chunk of the loop (0-based)
    rf,      \* frames handed to transactionIsoIec15693 by the current or last call
    rs,      \* the (flags, data) result of each of those transactions
    res,     \* how the last call ended: returned value or raised exception
    lastw,   \* the last write call, once it has returned normally: its offset and
             \* data, and whether every one of its transactions had flags 0
    writes   \* number of write calls started

memvars == <<tag, mem, pc, req, wdata, wnext, rf, rs, res, lastw, writes>>

(***************************************************************************)
(* Helpers.                                                                *)
(***************************************************************************)
Min(a, b) == IF a < b THEN a ELSE b

\* Python's s[a:b] for 0 <= a <= b on a list
PySlice(s, a, b) == SubSeq(s, a + 1, Min(b, Len(s)))

\* [v] * n
Repeat(v, n) == [i \in 1..n |-> v]

NoTag ==
    [uid |-> <<>>, block_size |-> 0, num_blocks |-> 0,
     header_size |-> 0, mem_size |-> 0]

\* the 8 UID bytes of the tag in the field
TagUid == <<224, 4, 1, 2, 3, 4, 5, 6>>

\* a constructor that takes its two sizes in the other order
NfcTagSwapped(uid, block_size, num_blocks) ==
    [uid |-> uid, block_size |-> num_blocks, num_blocks |-> block_size,
     header_size |-> 0, mem_size |-> 0]

\* NfcTag.__init__: header_size and mem_size start at 0
NfcTag(uid, block_size, num_blocks) ==
    [uid |-> uid, block_size |-> block_size, num_blocks |-> num_blocks,
     header_size |-> 0, mem_size |-> 0]


(***************************************************************************)
(* The tag in the field (the environment of the program).  It answers a    *)
(* frame with the pair (flags, data) that transactionIsoIec15693 returns:  *)
(* response[0] and response[1:], or (0xFF, []) when nothing was received.  *)
(***************************************************************************)
Response(flags, data) == [flags |-> flags, data |-> data]

NoAnswer == Response(NoAnswerFlags, <<>>)

\* what a tag of geometry (bs, nb) holds before anything is written to it
FreshMem(bs, nb) == [a \in 1..(bs * nb) |-> 15 + a]

\* the bytes of blocks first..last of the tag
Blocks(first, last) ==
    SubSeq(mem, first * tag.block_size + 1, (last + 1) * tag.block_size)

\* answers to READ_MULTIPLE_BLOCK(first, n): blocks first..first+n when they
\* all exist, error 0x10 (block not available) when not; at any time no
\* answer, error 0x0F, or an error flag with nothing after it
ReadMultipleAnswers(first, n) ==
    {NoAnswer, Response(1, <<15>>), Response(1, <<>>)}
    \cup (IF first + n < tag.num_blocks
          THEN {Response(0, Blocks(first, first + n))}
          ELSE {Response(1, <<16>>)})

\* answers to WRITE_SINGLE_BLOCK(block, data)
WriteSingleAnswers(block, data) ==
    {NoAnswer, Response(1, <<15>>), Response(1, <<>>)}
    \cup (IF block < tag.num_blocks /\ Len(data) = tag.block_size
          THEN {Response(0, <<>>)}
          ELSE {Response(1, <<16>>)})

\* the tag's memory after block `block` was programmed with `data`
Programmed(block, data) ==
    [a \in DOMAIN mem |->
        IF (a - 1) \div tag.block_size = block
        THEN data[((a - 1) % tag.block_size) + 1]
        ELSE mem[a]]

(***************************************************************************)
(* Transport: SpiMicropython.xfer turns the frame into bytes(...).  A list *)
(* element outside 0..255 either raises (CPython: ValueError) or is        *)
(* truncated to its low byte (MicroPython builds differ): -1 stands for    *)
(* the raise.                                                              *)
(***************************************************************************)
ByteOnWire(v) == IF v \in 0..255 THEN {v} ELSE {v % 256, -1}

(***************************************************************************)
(* iso_iec_15693.py                                                        *)
(***************************************************************************)
\* x | 0x20
OrAddressed(x) ==
    IF (x \div AddressedFlag) % 2 = 1 THEN x ELSE x + AddressedFlag

\* `uid is not []`: an identity test against a new list, true of every uid
UidIsNotEmptyList(uid) == TRUE

\* the first bytes every command puts in its frame: flags, code, optional UID
FrameHead(code, uid) ==
    IF UidIsNotEmptyList(uid)
    THEN <<OrAddressed(DefaultFlags), code>> \o uid
    ELSE <<DefaultFlags, code>>

\* getError raises IndexError on data[0] of an empty payload
GetErrorRaises(flags, data) ==
    flags # NoAnswerFlags /\ flags # 0 /\ data = <<>>

readMultipleBlocksFrame(firstBlockNumber, numberOfBlocks, uid) ==
    FrameHead(READ_MULTIPLE_BLOCK, uid) \o <<firstBlockNumber, numberOfBlocks>>

writeSingleBlockFrame(blockNumber, data, uid) ==
    FrameHead(WRITE_SINGLE_BLOCK, uid) \o <<blockNumber>> \o data

(***************************************************************************)
(* nfc.py: NfcReader.read                                                  *)
(***************************************************************************)
ReadSkip(offset, block_size) == offset % block_size

ReadStartBlock(offset, block_size) ==
    (offset - ReadSkip(offset, block_size)) \div block_size

\* total_bytes = bytes + skip; total_bytes += total_bytes % block_size;
\* num_blocks = total_bytes // block_size - 1
ReadNumBlocks(offset, bytes, block_size) ==
    LET total0 == bytes + ReadSkip(offset, block_size)
        total_bytes == total0 + (total0 % block_size)
    IN  (total_bytes \div block_size) - 1

Returned(op, value) ==
    [op |-> op, status |-> "returned", value |-> value, exc |-> "", block |-> -1]

Raised(op, exc, block) ==
    [op |-> op, status |-> "raised", value |-> <<>>, exc |-> exc, block |-> block]

read(offset, bytes) ==
    /\ pc = "ready"
    /\ pc' = "done"
    /\ req' = [op |-> "read", offset |-> offset, bytes |-> bytes, data |-> <<>>]
    /\ UNCHANGED <<tag, mem, wdata, wnext, lastw, writes>>
    /\ IF tag = NoTag
       THEN /\ rf' = <<>>
            /\ rs' = <<>>
            /\ res' = Raised("read", "No tag", -1)
       ELSE IF tag.block_size = 0
       THEN \* offset % self.tag.block_size
            /\ rf' = <<>>
            /\ rs' = <<>>
            /\ res' = Raised("read", "ZeroDivisionError", -1)
       ELSE LET skip == ReadSkip(offset, tag.block_size)
                start_block == ReadStartBlock(offset, tag.block_size)
                num_blocks == ReadNumBlocks(offset, bytes, tag.block_size)
            IN  /\ rf' = <<readMultipleBlocksFrame(start_block, num_blocks, tag.uid)>>
                /\ \E b \in ByteOnWire(start_block), n \in ByteOnWire(num_blocks) :
                      IF b = -1 \/ n = -1
                      THEN /\ rs' = <<>>
                           /\ res' = Raised("read", "ValueError", -1)
                      ELSE \E r \in ReadMultipleAnswers(b, n) :
                              /\ rs' = <<r>>
                              /\ res' = IF GetErrorRaises(r.flags, r.data)
                                        THEN Raised("read", "IndexError", -1)
                                        ELSE Returned("read",
                                                 PySlice(r.data, skip, skip + bytes))

(***************************************************************************)
(* nfc.py: chunks, NfcReader.write                                         *)
(***************************************************************************)
\* number of chunks `chunks(buffer, block_size)` yields
NumChunks(buffer, block_size) == (Len(buffer) + block_size - 1) \div block_size

\* the i-th chunk (0-based) that `chunks(buffer, block_size)` yields
chunks(buffer, block_size, i) ==
    PySlice(buffer, i * block_size, i * block_size + block_size)

WriteDeltaPre(offset, block_size) == offset % block_size

\* a write that forgets the right padding
WriteDeltaPostNone(len, block_size) == 0

\* delta_post = block_size - (len(data) % block_size), of the left-padded data
WriteDeltaPost(len, block_size) == block_size - (len % block_size)

\* data after both paddings
WritePadded(offset, data, block_size) ==
    LET pre == Repeat(0, WriteDeltaPre(offset, block_size)) \o data
    IN  pre \o Repeat(0, WriteDeltaPost(Len(pre), block_size))

\* the start block taken with a modulo where the division is needed
WriteStartBlockModulo(offset, block_size) ==
    (offset - WriteDeltaPre(offset, block_size)) % block_size

\* start_block = (offset - delta_pre) // block_size
WriteStartBlock(offset, block_size) ==
    (offset - WriteDeltaPre(offset, block_size)) \div block_size

\* `if data:` on the payload of the chunk's answer
WriteChunkFailed(r) == r.data # <<>>

NoRequest == [op |-> "none", offset |-> 0, bytes |-> 0, data |-> <<>>]

NoResult ==
    [op |-> "none", status |-> "none", value |-> <<>>, exc |-> "", block |-> -1]

NoWrite == [offset |-> 0, data |-> <<>>, ok |-> FALSE]

\* write up to the first iteration of the chunk loop
writeBegin(offset, data) ==
    /\ pc = "ready"
    /\ writes < MaxWrites
    /\ writes' = writes + 1
    /\ req' = [op |-> "write", offset |-> offset, bytes |-> Len(data), data |-> data]
    /\ rf' = <<>>
    /\ rs' = <<>>
    /\ lastw' = NoWrite
    /\ UNCHANGED <<tag, mem>>
    /\ IF tag = NoTag
       THEN /\ res' = Raised("write", "No tag", -1)
            /\ pc' = "done"
            /\ UNCHANGED <<wdata, wnext>>
       ELSE IF tag.block_size = 0
       THEN \* offset % self.tag.block_size
            /\ res' = Raised("write", "ZeroDivisionError", -1)
            /\ pc' = "done"
            /\ UNCHANGED <<wdata, wnext>>
       ELSE /\ wdata' = WritePadded(offset, data, tag.block_size)
            /\ wnext' = 0
            /\ pc' = "writing"
            /\ res' = [res EXCEPT !.op = "write", !.status = "running"]

\* one iteration of the chunk loop, and the end of write when it was the last
writeChunk ==
    /\ pc = "writing"
    /\ UNCHANGED <<tag, req, wdata, lastw, writes>>
    /\ LET block_num == WriteStartBlock(req.offset, tag.block_size) + wnext
           block_data == chunks(wdata, tag.block_size, wnext)
       IN  /\ rf' = Append(rf, writeSingleBlockFrame(block_num, block_data, tag.uid))
           /\ \E b \in ByteOnWire(block_num) :
                 IF b = -1
                 THEN /\ res' = Raised("write", "ValueError", -1)
                      /\ pc' = "done"
                      /\ UNCHANGED <<mem, rs, wnext>>
                 ELSE \E r \in WriteSingleAnswers(b, block_data) :
                         /\ rs' = Append(rs, r)
                         /\ mem' = IF r.flags = 0 THEN Programmed(b, block_data) ELSE mem
                         /\ IF GetErrorRaises(r.flags, r.data)
                            THEN /\ res' = Raised("write", "IndexError", -1)
                                 /\ pc' = "done"
                                 /\ UNCHANGED wnext
                            ELSE IF WriteChunkFailed(r)
                            THEN /\ res' = Raised("write", "Error writing block", block_num)
                                 /\ pc' = "done"
                                 /\ UNCHANGED wnext
                            ELSE /\ wnext' = wnext + 1
                                 /\ IF wnext + 1 < NumChunks(wdata, tag.block_size)
                                    THEN UNCHANGED <<pc, res>>
                                    ELSE /\ pc' = "done"
                                         /\ res' = Returned("write", <<>>)

(***************************************************************************)
(* pypn5180hal.py: the chip's registers, as far as the transaction uses    *)
(* them.  A register is a 32-bit value; on the chip and on the wire it is  *)
(* its four bytes, least significant first.                                *)
(***************************************************************************)
RECURSIVE BitAnd(_, _)
BitAnd(a, b) ==
    IF a = 0 \/ b = 0 THEN 0
    ELSE (a % 2) * (b % 2) + 2 * BitAnd(a \div 2, b \div 2)

RECURSIVE BitOr(_, _)
BitOr(a, b) ==
    IF a = 0 THEN b
    ELSE IF b = 0 THEN a
    ELSE (IF a % 2 = 1 \/ b % 2 = 1 THEN 1 ELSE 0) + 2 * BitOr(a \div 2, b \div 2)

\* _toList: struct.pack("<I", num32)
toList(num32) ==
    <<num32 % 256, (num32 \div 256) % 256, (num32 \div 65536) % 256,
      (num32 \div 16777216) % 256>>

\* _toInt32: struct.unpack("<I", bytes(byte_list))[0]
toInt32(byte_list) ==
    byte_list[1] + 256 * byte_list[2] + 65536 * byte_list[3]
        + 16777216 * byte_list[4]

\* chip: a register after WRITE_REGISTER_AND_MASK / WRITE_REGISTER_OR_MASK
AndMasked(reg, mask) == [i \in 1..4 |-> BitAnd(reg[i], mask[i])]
OrMasked(reg, mask) == [i \in 1..4 |-> BitOr(reg[i], mask[i])]

\* PN5180_HIL.SYSTEM_CONFIG; COMMAND_CLR is 0xFFFFFFF8, here as its bytes
COMMAND_CLR == <<248, 255, 255, 255>>
COMMAND_IDLE_SET == 0
COMMAND_TRANSCEIVE_SET == 3

\* PN5180_HIL.IRQ_STATUS
RX_IRQ_STAT == 1
RX_SOF_DET_IRQ_STAT == 16384

\* PN5180_HIL.RF_STATUS_TRANSCEIVE_STATE
RF_STATUS_TRANSCEIVE_STATE ==
    [i \in 0..7 |->
        CASE i = 0 -> "IDLE"
          [] i = 1 -> "WAIT_TRANSMIT"
          [] i = 2 -> "TRANSMITTING"
          [] i = 3 -> "WAIT_RECEIVE"
          [] i = 4 -> "WAIT_FOR_DATA"
          [] i = 5 -> "RECEIVING"
          [] i = 6 -> "LOOPBACK"
          [] i = 7 -> "RESERVED"]

(***************************************************************************)
(* pypn5180.py: PN5180.transactionIsoIec15693 and what it calls.           *)
(***************************************************************************)
VARIABLES
    txpc,       \* position in transactionIsoIec15693; "idle" between calls
    command,    \* the frame of the call
    sysConfig,  \* chip: SYSTEM_CONFIG
    irqStatus,  \* chip: IRQ_STATUS
    rfStatus,   \* chip: RF_STATUS (TRANSCEIVE_STATE is bits 24..26)
    rxBuf,      \* chip: the bytes in the reception buffer; RX_STATUS holds their number
    pending,    \* the tag's answer to the frame sent, as it arrives over the air
    air,        \* "quiet", "receiving" (the answer is arriving), "over"
    left,       \* ticks_diff(deadline, ticks_ms()): ms left to the current deadline
    irq_status, \* local: IRQ_STATUS as last read
    regvalue,   \* local of getRfStatusTransceiveState: RF_STATUS as read
    nbBytes,    \* local: the byte count read from RX_STATUS
    seenA,      \* some read of IRQ_STATUS in phase A had the RX-start bit set
    txlog,      \* the chip operations of the call, in order (repeated polls once)
    txres       \* how the call ended

txvars == <<txpc, command, sysConfig, irqStatus, rfStatus, rxBuf, pending, air, left,
            irq_status, regvalue, nbBytes, seenA, txlog, txres>>

\* deadline = ticks_add(ticks_ms(), 1)
PhaseAWindow == 1
\* deadline = ticks_add(ticks_ms(), 50)
PhaseBWindow == 50
\* clearIrqStatus(mask=0xFF)
IrqClearMask == 255
\* regvalue & 0x1FF
RxBytesMask == 511

\* the position of the TRANSCEIVE_STATE field of RF_STATUS: regvalue >> 24
StateShift == 16777216

\* chip: IRQ_STATUS after IRQ_CLEAR was written with `mask`: the bits set in
\* the mask are cleared
IrqCleared(status, mask) == [i \in 1..4 |-> BitAnd(status[i], 255 - mask[i])]

\* clearIrqStatus(mask=0xFF): writeRegister(IRQ_CLEAR, mask)
clearIrqStatus(status) == IrqCleared(status, toList(IrqClearMask))

\* a mode set by the OR alone
setSystemCommandOrOnly(config, mode) == OrMasked(config, toList(mode))

\* setSystemCommand: AND with COMMAND_CLR, then OR with the mode
setSystemCommand(config, mode) ==
    OrMasked(AndMasked(config, COMMAND_CLR), toList(mode))

\* getRfStatusTransceiveState: (regvalue >> 24) & 0x3, looked up in the table
getRfStatusTransceiveState(value) ==
    RF_STATUS_TRANSCEIVE_STATE[BitAnd(value \div StateShift, 3)]

\* the byte count taken as the whole of RX_STATUS
getRxStatusNbBytesReceivedUnmasked(value) == value

\* getRxStatusNbBytesReceived: the low 9 bits of RX_STATUS
getRxStatusNbBytesReceived(value) == BitAnd(value, RxBytesMask)

\* chip: what RX_STATUS can hold above bit 8 (RX_NUM_FRAMES_RECEIVED = 1, and
\* that with RX_COLLISION_DETECTED), as value >> 9
RxStatusUpper == {0, 1, 513}

\* the loop test of phase A: irq_status & RX_SOF_DET_IRQ_STAT == 0
RxNotStarted(status) == BitAnd(status, RX_SOF_DET_IRQ_STAT) = 0

\* the bail test with its sense inverted
RxDidNotStartInverted(status) == BitAnd(status, RX_SOF_DET_IRQ_STAT) # 0

\* "if RX didn't start, bail early": irq_status & RX_SOF_DET_IRQ_STAT == 0
RxDidNotStart(status) == BitAnd(status, RX_SOF_DET_IRQ_STAT) = 0

\* the loop test of phase B: irq_status & RX_IRQ_STAT == 0
RxNotComplete(status) == BitAnd(status, RX_IRQ_STAT) = 0

\* ticks_diff(deadline, ticks_ms()) after d more ms; how far the deadline
\* lies behind makes no difference
Elapsed(l, d) == IF l - d < -MaxStep THEN -MaxStep ELSE l - d

\* a loop test that never looks at the clock
deadlineIgnored(l) == TRUE

\* the deadline test of both loops: time.ticks_diff(deadline, time.ticks_ms()) > 0
deadlineAhead(l) == l > 0

\* a poll is logged once however often it is repeated
Logged(log, op) ==
    IF log # <<>> /\ log[Len(log)] = op THEN log ELSE Append(log, op)

TxReturned(flags, data) == [status |-> "returned", flags |-> flags, data |-> data]
TxRaised == [status |-> "raised", flags |-> 0, data |-> <<>>]
TxNone == [status |-> "none", flags |-> 0, data |-> <<>>]

\* the frames the model hands to the transaction: INVENTORY
Commands == {<<38, 1, 0>>}

\* what the tag may send back: nothing, a two-byte error answer, an answer
\* with flags 0 and two data bytes
TagAnswers == {<<>>, <<1, 16>>, <<0, 7, 8>>}

\* the call begins
txStart(cmd) ==
    /\ txpc = "idle"
    /\ txpc' = "clearIrq"
    /\ command' = cmd
    /\ txlog' = <<>>
    /\ txres' = TxNone
    /\ seenA' = FALSE
    /\ UNCHANGED <<sysConfig, irqStatus, rfStatus, rxBuf, pending, air, left,
                   irq_status, regvalue, nbBytes>>

\* await self.clearIrqStatus()
txClearIrq ==
    /\ txpc = "clearIrq"
    /\ txpc' = "setTransceive"
    /\ irqStatus' = clearIrqStatus(irqStatus)
    /\ txlog' = Append(txlog, "IRQ_CLEAR")
    /\ UNCHANGED <<command, sysConfig, rfStatus, rxBuf, pending, air, left,
                   irq_status, regvalue, nbBytes, seenA, txres>>

\* await self.setSystemCommand("COMMAND_TRANSCEIVE_SET"); the chip enters
\* some transceive state
txSetTransceive ==
    /\ txpc = "setTransceive"
    /\ txpc' = "checkState"
    /\ sysConfig' = setSystemCommand(sysConfig, COMMAND_TRANSCEIVE_SET)
    /\ \E st \in 0..7 : rfStatus' = toList(st * StateShift)
    /\ txlog' = Append(txlog, "TRANSCEIVE")
    /\ UNCHANGED <<command, irqStatus, rxBuf, pending, air, left,
                   irq_status, regvalue, nbBytes, seenA, txres>>

\* state = await self.getRfStatusTransceiveState(); raise unless WAIT_TRANSMIT
txCheckState ==
    /\ txpc = "checkState"
    /\ regvalue' = toInt32(rfStatus)
    /\ txlog' = Append(txlog, "RF_STATUS")
    /\ IF getRfStatusTransceiveState(toInt32(rfStatus)) # "WAIT_TRANSMIT"
       THEN /\ txpc' = "done"
            /\ txres' = TxRaised
       ELSE /\ txpc' = "send"
            /\ UNCHANGED txres
    /\ UNCHANGED <<command, sysConfig, irqStatus, rfStatus, rxBuf, pending, air, left,
                   irq_status, nbBytes, seenA>>

\* await self.sendData(8, command), then the phase A deadline is taken.  The
\* tag answers or not; the chip keeps or drops what an earlier reception left
\* in its buffer
txSend ==
    /\ txpc = "send"
    /\ txpc' = "pollA"
    /\ txlog' = Append(txlog, "SEND_DATA")
    /\ pending' \in TagAnswers
    /\ air' = "quiet"
    /\ rxBuf' \in {rxBuf, <<>>}
    /\ left' = PhaseAWindow
    /\ UNCHANGED <<command, sysConfig, irqStatus, rfStatus,
                   irq_status, regvalue, nbBytes, seenA, txres>>

\* irq_status = await self.getIrqStatus() before the loop of phase A; the
\* exchange takes 0..MaxStep ms
txPollA ==
    /\ txpc = "pollA"
    /\ txpc' = "loopA"
    /\ irq_status' = toInt32(irqStatus)
    /\ seenA' = (BitAnd(toInt32(irqStatus), RX_SOF_DET_IRQ_STAT) # 0)
    /\ \E d \in 0..MaxStep : left' = left - d
    /\ txlog' = Logged(txlog, "IRQ_STATUS_A")
    /\ UNCHANGED <<command, sysConfig, irqStatus, rfStatus, rxBuf, pending, air,
                   regvalue, nbBytes, txres>>

\* one iteration of the loop of phase A (a read of IRQ_STATUS and a sleep of
\* at least 1 ms), or its exit: IDLE and the no-answer result when RX did not
\* start, else the phase B deadline
txLoopA ==
    /\ txpc = "loopA"
    /\ IF RxNotStarted(irq_status) /\ deadlineAhead(left)
       THEN /\ irq_status' = toInt32(irqStatus)
            /\ seenA' = (seenA \/ BitAnd(toInt32(irqStatus), RX_SOF_DET_IRQ_STAT) # 0)
            /\ \E d \in 1..MaxStep : left' = Elapsed(left, d)
            /\ txlog' = Logged(txlog, "IRQ_STATUS_A")
            /\ UNCHANGED <<txpc, sysConfig, rfStatus, txres>>
       ELSE IF RxDidNotStart(irq_status)
       THEN /\ sysConfig' = setSystemCommand(sysConfig, COMMAND_IDLE_SET)
            /\ rfStatus' = toList(0)
            /\ txlog' = Append(txlog, "IDLE")
            /\ txres' = TxReturned(NoAnswerFlags, <<>>)
            /\ txpc' = "done"
            /\ UNCHANGED <<irq_status, seenA, left>>
       ELSE /\ left' = PhaseBWindow
            /\ txpc' = "pollB"
            /\ UNCHANGED <<irq_status, seenA, sysConfig, rfStatus, txlog, txres>>
    /\ UNCHANGED <<command, irqStatus, rxBuf, pending, air, regvalue, nbBytes>>

\* irq_status = await self.getIrqStatus() before the loop of phase B
txPollB ==
    /\ txpc = "pollB"
    /\ txpc' = "loopB"
    /\ irq_status' = toInt32(irqStatus)
    /\ \E d \in 0..MaxStep : left' = left - d
    /\ txlog' = Logged(txlog, "IRQ_STATUS_B")
    /\ UNCHANGED <<command, sysConfig, irqStatus, rfStatus, rxBuf, pending, air,
                   regvalue, nbBytes, seenA, txres>>

\* one iteration of the loop of phase B, or its exit to the read of RX_STATUS
txLoopB ==
    /\ txpc = "loopB"
    /\ IF RxNotComplete(irq_status) /\ deadlineAhead(left)
       THEN /\ irq_status' = toInt32(irqStatus)
            /\ \E d \in 1..MaxStep : left' = Elapsed(left, d)
            /\ txlog' = Logged(txlog, "IRQ_STATUS_B")
            /\ UNCHANGED txpc
       ELSE /\ txpc' = "rxStatus"
            /\ UNCHANGED <<irq_status, left, txlog>>
    /\ UNCHANGED <<command, sysConfig, irqStatus, rfStatus, rxBuf, pending, air,
                   regvalue, nbBytes, seenA, txres>>

\* nbBytes = await self.getRxStatusNbBytesReceived(); RX_STATUS holds the
\* number of bytes received in bits 0..8 and other fields above them
txRxStatus ==
    /\ txpc = "rxStatus"
    /\ txpc' = "readData"
    /\ \E upper \in RxStatusUpper :
          nbBytes' = getRxStatusNbBytesReceived(Len(rxBuf) + 512 * upper)
    /\ txlog' = Append(txlog, "RX_STATUS")
    /\ UNCHANGED <<command, sysConfig, irqStatus, rfStatus, rxBuf, pending, air, left,
                   irq_status, regvalue, seenA, txres>>

\* response = await self.readData(nbBytes); flags and data are split off it,
\* or are the no-answer result when it is empty
txReadData ==
    /\ txpc = "readData"
    /\ txpc' = "setIdle"
    /\ txlog' = Append(txlog, "READ_DATA")
    /\ LET response == SubSeq(rxBuf, 1, nbBytes)
       IN  txres' = IF response # <<>>
                    THEN TxReturned(response[1], Tail(response))
                    ELSE TxReturned(NoAnswerFlags, <<>>)
    /\ UNCHANGED <<command, sysConfig, irqStatus, rfStatus, rxBuf, pending, air, left,
                   irq_status, regvalue, nbBytes, seenA>>

\* await self.setSystemCommand("COMMAND_IDLE_SET"); return flags, data
txSetIdle ==
    /\ txpc = "setIdle"
    /\ txpc' = "done"
    /\ sysConfig' = setSystemCommand(sysConfig, COMMAND_IDLE_SET)
    /\ rfStatus' = toList(0)
    /\ txlog' = Append(txlog, "IDLE")
    /\ UNCHANGED <<command, irqStatus, rxBuf, pending, air, left,
                   irq_status, regvalue, nbBytes, seenA, txres>>

\* the caller has the result (or the exception); the locals are gone
txReturn ==
    /\ txpc = "done"
    /\ txpc' = "idle"
    /\ command' = <<>>
    /\ pending' = <<>>
    /\ air' = "quiet"
    /\ left' = 0
    /\ irq_status' = 0
    /\ regvalue' = 0
    /\ nbBytes' = 0
    /\ seenA' = FALSE
    /\ txlog' = <<>>
    /\ txres' = TxNone
    /\ UNCHANGED <<sysConfig, irqStatus, rfStatus, rxBuf>>

(***************************************************************************)
(* The chip while it listens for the tag's answer (the environment).       *)
(***************************************************************************)
Listening == txpc \in {"pollA", "loopA", "pollB", "loopB", "rxStatus", "readData"}

\* the start of the answer is detected: RX_SOF_DET_IRQ_STAT is set and a new
\* reception begins.  A tag answers, if at all, while the program still polls
chipRxStart ==
    /\ txpc \in {"pollA", "loopA", "pollB", "loopB"}
    /\ air = "quiet"
    /\ pending # <<>>
    /\ air' = "receiving"
    /\ irqStatus' = OrMasked(irqStatus, toList(RX_SOF_DET_IRQ_STAT))
    /\ rxBuf' = <<>>
    /\ UNCHANGED <<txpc, command, sysConfig, rfStatus, pending, left, irq_status,
                   regvalue, nbBytes, seenA, txlog, txres>>

\* one more byte of the answer is in the buffer
chipRxByte ==
    /\ Listening
    /\ air = "receiving"
    /\ Len(rxBuf) < Len(pending)
    /\ rxBuf' = Append(rxBuf, pending[Len(rxBuf) + 1])
    /\ UNCHANGED <<txpc, command, sysConfig, irqStatus, rfStatus, pending, air, left,
                   irq_status, regvalue, nbBytes, seenA, txlog, txres>>

\* the answer is complete: RX_IRQ_STAT is set
chipRxEnd ==
    /\ Listening
    /\ air = "receiving"
    /\ Len(rxBuf) = Len(pending)
    /\ air' = "over"
    /\ irqStatus' = OrMasked(irqStatus, toList(RX_IRQ_STAT))
    /\ UNCHANGED <<txpc, command, sysConfig, rfStatus, rxBuf, pending, left,
                   irq_status, regvalue, nbBytes, seenA, txlog, txres>>

(***************************************************************************)
(* State of the other layers: the command layer (iso_iec_15693.py), the    *)
(* tag session (NfcReader.tick) and a second cooperative task.             *)
(***************************************************************************)
VARIABLES
    call,      \* the last call of a command of iso_iec_15693: the command, its
               \* arguments, the frame, the answer and what the call gave back
    events,    \* the tag-found / tag-lost events printed by tick, in order
    ticks,     \* number of tick calls made
    lasttick,  \* the last tick: the tag before it, the results of its commands,
               \* the events it printed, how it ended
    born,      \* the NfcTag objects constructed: their number, and the uid and
               \* geometry the last one was constructed with
    other,     \* the locals of the task that is suspended while this one runs
    spi,       \* the last call of a codec function of PN5180_HIL: the function,
               \* its arguments, its transport exchanges in order (the bytes
               \* sent, the bytes clocked in that the codec keeps, whether the
               \* exchange returned or raised) and what the call gave back
    idle       \* clearIrqStatus + setSystemCommand(IDLE) done in a row: the
               \* position in the pair, the registers before the first pair and
               \* after each pair

othervars == <<call, events, ticks, lasttick, born, other, spi, idle>>

\* no command has been called
NoCall ==
    [cmd |-> "none", args |-> <<>>, frame |-> <<>>, flags |-> 0, data |-> <<>>,
     status |-> "none", value |-> <<>>, error |-> ""]

\* no tick has been made
NoTick ==
    [before |-> NoTag, inventory |-> NoCall, info |-> NoCall, cmds |-> <<>>,
     printed |-> <<>>, status |-> "none"]

\* no NfcTag has been constructed
NoneBorn == [n |-> 0, uid |-> <<>>, block_size |-> 0, num_blocks |-> 0]

\* a task that is not inside transactionIsoIec15693
TaskAtRest ==
    [txpc |-> "idle", command |-> <<>>, left |-> 0, irq_status |-> 0,
     regvalue |-> 0, nbBytes |-> 0, seenA |-> FALSE, txlog |-> <<>>,
     txres |-> TxNone]

\* no function of the codec has been called
NoExchanges ==
    [fn |-> "none", address |-> 0, arg |-> [hi |-> 0, lo |-> 0], length |-> 0,
     xfers |-> <<>>, status |-> "none", value |-> <<>>]

\* no clearIrqStatus + setSystemCommand(IDLE) pair has been started
NoPairs ==
    [at |-> "clearIrq", start |-> [sysConfig |-> <<>>, irqStatus |-> <<>>],
     pairs |-> <<>>]

OthersAtRest ==
    /\ call = NoCall
    /\ events = <<>>
    /\ ticks = 0
    /\ lasttick = NoTick
    /\ born = NoneBorn
    /\ other = TaskAtRest
    /\ spi = NoExchanges
    /\ idle = NoPairs

(***************************************************************************)
(* The specification of the tag memory layer: read and write calls on a    *)
(* reader that tracks a tag or none.  The transceive engine is at rest.    *)
(***************************************************************************)
\* the data of a write call: `len` bytes 9 (no byte of a fresh tag and no
\* padding byte is 9)
WriteData(len) == {Repeat(9, len)}

\* no call of read or write is under way and none has been made
MemAtRest ==
    /\ pc = "ready"
    /\ req = NoRequest
    /\ wdata = <<>>
    /\ wnext = 0
    /\ rf = <<>>
    /\ rs = <<>>
    /\ res = NoResult
    /\ lastw = NoWrite
    /\ writes = 0

\* the chip after configureIsoIec15693Mode, no transaction under way
TxAtRest ==
    /\ txpc = "idle"
    /\ command = <<>>
    /\ sysConfig = toList(COMMAND_IDLE_SET)
    /\ irqStatus = toList(0)
    /\ rfStatus = toList(0)
    /\ rxBuf = <<>>
    /\ pending = <<>>
    /\ air = "quiet"
    /\ left = 0
    /\ irq_status = 0
    /\ regvalue = 0
    /\ nbBytes = 0
    /\ seenA = FALSE
    /\ txlog = <<>>
    /\ txres = TxNone

Init ==
    /\ tag \in {NoTag} \cup
               {NfcTag(TagUid, bs, nb) : bs \in 1..MaxBlockSize, nb \in 1..MaxBlocks}
    /\ mem = FreshMem(tag.block_size, tag.num_blocks)
    /\ MemAtRest
    /\ TxAtRest
    /\ OthersAtRest

Read ==
    /\ \E offset \in 0..MaxOffset, bytes \in 1..MaxLen : read(offset, bytes)
    /\ UNCHANGED <<txvars, othervars>>

WriteBegin ==
    /\ \E offset \in 0..MaxOffset, len \in 1..MaxLen :
          \E data \in WriteData(len) : writeBegin(offset, data)
    /\ UNCHANGED <<txvars, othervars>>

WriteChunk == writeChunk /\ UNCHANGED <<txvars, othervars>>

\* the caller takes the result of the call that ended; the locals of the call
\* are gone
Return ==
    /\ pc = "done"
    /\ pc' = "ready"
    /\ lastw' = IF res.op = "write" /\ res.status = "returned"
                THEN [offset |-> req.offset, data |-> req.data,
                      ok |-> \A i \in 1..Len(rs) : rs[i].flags = 0]
                ELSE lastw
    /\ req' = NoRequest
    /\ res' = NoResult
    /\ rf' = <<>>
    /\ rs' = <<>>
    /\ wdata' = <<>>
    /\ wnext' = 0
    /\ UNCHANGED <<tag, mem, writes>>
    /\ UNCHANGED <<txvars, othervars>>

Next == Read \/ WriteBegin \/ WriteChunk \/ Return

vars == <<memvars, txvars, othervars>>

Spec == Init /\ [][Next]_vars

(***************************************************************************)
(* The specification of the transceive engine: transactions one after the  *)
(* other on one chip, the chip receiving the tag's answers meanwhile.      *)
(***************************************************************************)
TxInit ==
    /\ tag = NoTag
    /\ mem = <<>>
    /\ MemAtRest
    /\ TxAtRest
    /\ OthersAtRest

TxStart == (\E cmd \in Commands : txStart(cmd)) /\ UNCHANGED <<memvars, othervars>>
TxClearIrq == txClearIrq /\ UNCHANGED <<memvars, othervars>>
TxSetTransceive == txSetTransceive /\ UNCHANGED <<memvars, othervars>>
TxCheckState == txCheckState /\ UNCHANGED <<memvars, othervars>>
TxSend == txSend /\ UNCHANGED <<memvars, othervars>>
TxPollA == txPollA /\ UNCHANGED <<memvars, othervars>>
TxLoopA == txLoopA /\ UNCHANGED <<memvars, othervars>>
TxPollB == txPollB /\ UNCHANGED <<memvars, othervars>>
TxLoopB == txLoopB /\ UNCHANGED <<memvars, othervars>>
TxRxStatus == txRxStatus /\ UNCHANGED <<memvars, othervars>>
TxReadData == txReadData /\ UNCHANGED <<memvars, othervars>>
TxSetIdle == txSetIdle /\ UNCHANGED <<memvars, othervars>>
TxReturn == txReturn /\ UNCHANGED <<memvars, othervars>>
ChipRxStart == chipRxStart /\ UNCHANGED <<memvars, othervars>>
ChipRxByte == chipRxByte /\ UNCHANGED <<memvars, othervars>>
ChipRxEnd == chipRxEnd /\ UNCHANGED <<memvars, othervars>>

TxNext ==
    \/ TxStart \/ TxClearIrq \/ TxSetTransceive \/ TxCheckState \/ TxSend
    \/ TxPollA \/ TxLoopA \/ TxPollB \/ TxLoopB \/ TxRxStatus \/ TxReadData
    \/ TxSetIdle \/ TxReturn
    \/ ChipRxStart \/ ChipRxByte \/ ChipRxEnd

SpecTransceive == TxInit /\ [][TxNext]_vars

(***************************************************************************)
(* Properties of the tag memory layer (under Spec).                        *)
(***************************************************************************)
\* a call of `op` on a tracked tag is under way or has just ended
InCall(op) == req.op = op /\ tag # NoTag

\* the block number in a READ_MULTIPLE_BLOCK or WRITE_SINGLE_BLOCK frame, and
\* the block count parameter of READ_MULTIPLE_BLOCK
FrameBlock(f) == f[Len(FrameHead(0, tag.uid)) + 1]
FrameCount(f) == f[Len(FrameHead(0, tag.uid)) + 2]
FrameData(f) == SubSeq(f, Len(FrameHead(0, tag.uid)) + 2, Len(f))

\* C1: read(offset, length) issues one READ_MULTIPLE_BLOCK whose first block
\* is floor(offset/blockSize) and whose zero-based count N makes the blocks
\* first..first+N cover the bytes [offset, offset+length).
ReadCoversRange ==
    (InCall("read") /\ pc = "done") =>
        /\ Len(rf) = 1
        /\ FrameBlock(rf[1]) = req.offset \div tag.block_size
        /\ FrameCount(rf[1]) >= 0
        /\ FrameBlock(rf[1]) * tag.block_size <= req.offset
        /\ (FrameBlock(rf[1]) + FrameCount(rf[1]) + 1) * tag.block_size
               >= req.offset + req.bytes

\* C2: when the tag answers the READ_MULTIPLE_BLOCK with flags 0 and all the
\* N+1 blocks the frame asks for, read returns exactly `length` bytes: the
\* bytes [skip, skip+length) of the returned blocks, skip = offset mod
\* blockSize.
ReadReturnsSlice ==
    (/\ InCall("read") /\ pc = "done"
     /\ Len(rs) = 1
     /\ rs[1].flags = 0
     /\ Len(rs[1].data) = (FrameCount(rf[1]) + 1) * tag.block_size) =>
        /\ res.status = "returned"
        /\ Len(res.value) = req.bytes
        /\ \A i \in 1..req.bytes :
              /\ i <= Len(res.value)
              /\ (req.offset % tag.block_size) + i <= Len(rs[1].data)
              /\ res.value[i] = rs[1].data[(req.offset % tag.block_size) + i]

\* C3: a write(offset, data) that fits in the tag's memory and succeeded on
\* every chunk, followed by a successful read(offset, len(data)), returns data.
RoundTrip ==
    (/\ InCall("read") /\ pc = "done"
     /\ lastw.ok
     /\ req.offset = lastw.offset
     /\ req.bytes = Len(lastw.data)
     /\ req.offset + req.bytes <= tag.block_size * tag.num_blocks
     /\ Len(rs) = 1
     /\ rs[1].flags = 0) =>
        /\ res.status = "returned"
        /\ res.value = lastw.data

\* C4: write(offset, data) issues WRITE_SINGLE_BLOCK for exactly the blocks
\* floor(offset/blockSize) .. floor((offset+len(data)-1)/blockSize), in
\* ascending order: no block wholly outside the byte range is written.
WriteBlocksExact ==
    InCall("write") =>
        LET first == req.offset \div tag.block_size
            last == (req.offset + req.bytes - 1) \div tag.block_size
        IN  /\ \A i \in 1..Len(rf) :
                  /\ FrameBlock(rf[i]) = first + (i - 1)
                  /\ FrameBlock(rf[i]) <= last
            /\ (pc = "done" /\ res.status = "returned") =>
                  Len(rf) = last - first + 1

\* C5: every WRITE_SINGLE_BLOCK frame of write carries exactly blockSize data
\* bytes.
WriteWholeBlocks ==
    InCall("write") =>
        \A i \in 1..Len(rf) : Len(FrameData(rf[i])) = tag.block_size

\* a write at an offset inside a block, of more than one chunk, has ended
WriteWholeBlocksWitness ==
    /\ InCall("write") /\ pc = "done" /\ res.status = "returned"
    /\ req.offset % tag.block_size # 0
    /\ (req.offset + req.bytes) % tag.block_size # 0
    /\ Len(rf) >= 2

\* C6: if the WRITE_SINGLE_BLOCK of chunk k is answered with a nonempty
\* payload, write raises an error naming block startBlock+k and issues no
\* WRITE_SINGLE_BLOCK after it.
WriteErrorNamesBlock ==
    InCall("write") =>
        \A i \in 1..Len(rs) :
            rs[i].data # <<>> =>
                /\ i = Len(rf)
                /\ pc = "done"
                /\ res.status = "raised"
                /\ res.exc = "Error writing block"
                /\ res.block = (req.offset \div tag.block_size) + (i - 1)

\* the second chunk of a write that does not start in block 0 was answered
\* with an error code, with more chunks to come
WriteErrorNamesBlockWitness ==
    /\ InCall("write") /\ pc = "done"
    /\ req.offset >= tag.block_size
    /\ Len(rs) = 2
    /\ rs[2].data # <<>>
    /\ NumChunks(wdata, tag.block_size) > 2
    /\ res.status = "raised"

\* C7: if any chunk's transaction fails, no answer (flags 0xFF, empty
\* payload) included, write ends with an error and writes no further chunk;
\* write returns normally only if every chunk succeeded.
WriteHaltsOnAnyFailure ==
    InCall("write") =>
        \A i \in 1..Len(rs) :
            rs[i].flags # 0 =>
                /\ i = Len(rf)
                /\ pc = "done"
                /\ res.status = "raised"

(***************************************************************************)
(* Properties of the transceive engine (under SpecTransceive).             *)
(***************************************************************************)
InLog(op) == \E i \in 1..Len(txlog) : txlog[i] = op

TimesInLog(op) == Cardinality({i \in 1..Len(txlog) : txlog[i] = op})

\* the 3-bit TRANSCEIVE_STATE field of an RF_STATUS value
TransceiveStateField(value) == (value \div StateShift) % 8

\* the command field of SYSTEM_CONFIG (bits 0..2)
CommandField == sysConfig[1] % 8

\* C8: the frame is sent only if the transceive state read just before was
\* WAIT_TRANSMIT; in each of the seven other states the call fails and
\* nothing is sent.
SendOnlyInWaitTransmit ==
    /\ InLog("SEND_DATA") =>
          RF_STATUS_TRANSCEIVE_STATE[TransceiveStateField(regvalue)] = "WAIT_TRANSMIT"
    /\ (InLog("RF_STATUS")
        /\ RF_STATUS_TRANSCEIVE_STATE[TransceiveStateField(regvalue)] # "WAIT_TRANSMIT") =>
          /\ txpc = "done"
          /\ txres.status = "raised"
          /\ ~InLog("SEND_DATA")

\* C9: if the RX-complete bit has not appeared by the phase B deadline, the
\* call returns the no-answer result (0xFF, []) with the chip back in IDLE,
\* whatever number of bytes RX_STATUS reports.
PhaseBTimeoutNoAnswer ==
    (/\ txpc = "done"
     /\ InLog("IRQ_STATUS_B")
     /\ RxNotComplete(irq_status)
     /\ RxNotComplete(toInt32(irqStatus))) =>
        /\ txres = TxReturned(NoAnswerFlags, <<>>)
        /\ CommandField = COMMAND_IDLE_SET

\* C10: if no read of IRQ_STATUS in phase A shows the RX-start bit, the call
\* returns (0xFF, []), issues no READ_DATA, and sets the command to IDLE
\* exactly once.
PhaseATimeoutNoAnswer ==
    /\ (InLog("IRQ_STATUS_A") /\ ~seenA) => ~InLog("READ_DATA")
    /\ (txpc = "done" /\ InLog("IRQ_STATUS_A") /\ ~seenA) =>
          /\ txres = TxReturned(NoAnswerFlags, <<>>)
          /\ TimesInLog("IDLE") = 1
          /\ txlog[Len(txlog)] = "IDLE"
          /\ CommandField = COMMAND_IDLE_SET

\* a call has ended by the phase A timeout although the tag did answer
PhaseATimeoutNoAnswerWitness ==
    /\ txpc = "done"
    /\ InLog("IRQ_STATUS_A")
    /\ ~seenA
    /\ pending # <<>>
    /\ txres.status = "returned"

(***************************************************************************)
(* iso_iec_15693.py: the classification of a transaction's result and the  *)
(* commands that parse their answer.                                       *)
(***************************************************************************)
\* iso_iec_15693.CMD_CODE
INVENTORY == 1
WRITE_MULTIPLE_BLOCK == 36
GET_SYSTEM_INFORMATION == 43

\* the keys of iso_iec_15693.ERROR_CODE
ErrorCodes == {0, 1, 2, 3, 15, 16, 17, 18, 19, 20, 167}

\* iso_iec_15693.ERROR_CODE
ERROR_CODE ==
    [c \in ErrorCodes |->
        CASE c = 0 -> "ERROR CODE ZERO"
          [] c = 1 -> "The command is not supported, i.e. the request code is not recognised."
          [] c = 2 -> "The command is not recognised, for example: a format error occurred."
          [] c = 3 -> "The option is not supported."
          [] c = 15 -> "Unknown error."
          [] c = 16 -> "The specified block is not available (doesn t exist)."
          [] c = 17 -> "The specified block is already -locked and thus cannot be locked again"
          [] c = 18 -> "The specified block is locked and its content cannot be changed."
          [] c = 19 -> "The specified block was not successfully programmed."
          [] c = 20 -> "The specified block was not successfully locked"
          [] c = 167 -> "CUSTOM ERROR 0xA7"]

\* the characters of a number's digits
DigitChars ==
    <<"0", "1", "2", "3", "4", "5", "6", "7", "8", "9", "a", "b", "c", "d", "e", "f">>

\* str(n) of an int n >= 0: its decimal digits
RECURSIVE PyStr(_)
PyStr(n) ==
    IF n < 10 THEN DigitChars[n + 1]
    ELSE PyStr(n \div 10) \o DigitChars[(n % 10) + 1]

\* self.ERROR_CODE.get(code, str(code))
ErrorText(code) ==
    IF code \in ErrorCodes THEN ERROR_CODE[code] ELSE PyStr(code)

\* getError(flags, data), where it does not raise (see GetErrorRaises)
getError(flags, data) ==
    IF flags = NoAnswerFlags THEN "Transaction ERROR: No Answer from tag"
    ELSE IF flags # 0 THEN "Transaction ERROR: " \o ErrorText(data[1])
    ELSE "Transaction OK"

\* the values a command gives back next to the error message
PyNone == [kind |-> "None"]
PyStrValue(str) == [kind |-> "str", str |-> str]
PyList(items) == [kind |-> "list", items |-> items]
TagInfo(dsfid, afi, num_blocks, block_size) ==
    [kind |-> "TagInfo", dsfid |-> dsfid, afi |-> afi, num_blocks |-> num_blocks,
     block_size |-> block_size]

\* the truth value of `if v:`: None, "" and [] are false, a namedtuple of
\* four fields is true whatever the fields hold
Truthy(v) ==
    CASE v.kind = "None" -> FALSE
      [] v.kind = "str" -> v.str # ""
      [] v.kind = "list" -> v.items # <<>>
      [] v.kind = "TagInfo" -> TRUE

\* how a call ended: `return value, error`, or an exception
CallReturned(value, error) == [status |-> "returned", value |-> value, error |-> error]
CallRaised(exc) == [status |-> "raised", value |-> PyNone, error |-> exc]

\* the record of a call: the command, its arguments (for a reply the tag
\* built from fields, those fields), the frame it sent, the (flags, data) of
\* its transaction, and how it ended
Call(cmd, args, frame, flags, data, result) ==
    [cmd |-> cmd, args |-> args, frame |-> frame, flags |-> flags, data |-> data,
     status |-> result.status, value |-> result.value, error |-> result.error]

\* the result of a command that ends with
\*     error = self.getError(flags, data); return data, error
dataAndError(flags, data) ==
    IF GetErrorRaises(flags, data) THEN CallRaised("IndexError")
    ELSE CallReturned(PyList(data), getError(flags, data))

\* inventoryCmd: the frame
inventoryFrame == <<38, INVENTORY, 0>>

\* inventoryCmd: what it makes of the transaction's (flags, data)
inventoryCmd(flags, data) ==
    LET flags2 == IF flags = 0 /\ Len(data) < 9 THEN NoAnswerFlags ELSE flags
    IN  IF flags2 # 0
        THEN IF GetErrorRaises(flags2, data) THEN CallRaised("IndexError")
             ELSE CallReturned(PyNone, getError(flags2, data))
        ELSE CallReturned(PyList(PySlice(data, 1, 9)), "")

\* writeMultipleBlocksCmd: the frame
writeMultipleBlocksFrame(blockNumber, numBlocks, data, uid) ==
    FrameHead(WRITE_MULTIPLE_BLOCK, uid) \o <<blockNumber, numBlocks>> \o data

\* writeMultipleBlocksCmd: what it makes of the transaction's (flags, data);
\* numBlocks takes no part in it
writeMultipleBlocksCmd(numBlocks, flags, data) == dataAndError(flags, data)

\* getSystemInformationCmd: the frame
getSystemInformationFrame(uid) == FrameHead(GET_SYSTEM_INFORMATION, uid)

\* p = 9: the index of the first optional field, after info_flags and the UID
SysInfoFields == 9

\* a decoder that steps over a field whether or not it is present
NextFieldAlways(p, present) == p + 1

\* `p += 1` under `if info_flags & bit:`
NextField(p, present) == IF present THEN p + 1 ELSE p

\* getSystemInformationCmd: what it makes of the transaction's (flags, data).
\* An index past the end of data raises IndexError
getSystemInformationCmd(flags, data) ==
    IF flags # 0
    THEN IF GetErrorRaises(flags, data) THEN CallRaised("IndexError")
         ELSE CallReturned(PyStrValue(""), getError(flags, data))
    ELSE IF data = <<>> THEN CallRaised("IndexError")
    ELSE LET info_flags == data[1]
             hasDsfid == BitAnd(info_flags, 1) # 0
             hasAfi == BitAnd(info_flags, 2) # 0
             hasBlocks == BitAnd(info_flags, 4) # 0
             p0 == SysInfoFields
             p1 == NextField(p0, hasDsfid)
             p2 == NextField(p1, hasAfi)
             reads == (IF hasDsfid THEN {p0} ELSE {})
                      \cup (IF hasAfi THEN {p1} ELSE {})
                      \cup (IF hasBlocks THEN {p2, p2 + 1} ELSE {})
         IN  IF \E i \in reads : i >= Len(data)
             THEN CallRaised("IndexError")
             ELSE CallReturned(
                      TagInfo(IF hasDsfid THEN data[p0 + 1] ELSE 0,
                              IF hasAfi THEN data[p1 + 1] ELSE 0,
                              IF hasBlocks THEN data[p2 + 1] + 1 ELSE 0,
                              IF hasBlocks THEN BitAnd(data[p2 + 2], 31) + 1 ELSE 0),
                      "")

(***************************************************************************)
(* The tag's answers to the commands (the environment).                    *)
(***************************************************************************)
\* largest info flags byte of a GET_SYSTEM_INFORMATION reply
MaxInfoFlags == 7

\* the payload after the response flags of a GET_SYSTEM_INFORMATION reply:
\* info flags, UID, then DSFID if bit 0, AFI if bit 1, the two block
\* information bytes if bit 2, the IC reference if bit 3
SysInfoReply(info_flags, uid, dsfid, afi, blocks, ic) ==
    <<info_flags>> \o uid
    \o (IF BitAnd(info_flags, 1) # 0 THEN <<dsfid>> ELSE <<>>)
    \o (IF BitAnd(info_flags, 2) # 0 THEN <<afi>> ELSE <<>>)
    \o (IF BitAnd(info_flags, 4) # 0 THEN blocks ELSE <<>>)
    \o (IF BitAnd(info_flags, 8) # 0 THEN <<ic>> ELSE <<>>)

\* the fields the tags of the model have: DSFID, AFI, the block information
\* bytes (number of blocks - 1, block size - 1 with or without high bits set)
SysInfoFieldSets ==
    {<<f, d, a, b>> : f \in 0..MaxInfoFlags, d \in {5, 0}, a \in {2},
                      b \in {<<15, 3>>, <<1, 35>>, <<255, 31>>}}

\* an error answer's payload: codes in and not in ERROR_CODE, or nothing
ErrorPayloads == {<<16>>, <<15>>, <<0>>, <<4>>, <<32>>, <<160>>, <<>>}

\* the response flags of the model: success, error, error with other bits
\* set, no answer
ResponseFlags == {0, 1, 3, NoAnswerFlags}

\* INVENTORY payloads: DSFID and UID, a payload cut short, nothing
InventoryPayloads ==
    {<<0>> \o TagUid, <<0>> \o TagUid \o <<7>>, <<0, 224, 4, 1, 2>>, <<>>}

\* the payloads answered to WRITE_MULTIPLE_BLOCK: none, one or two bytes
WritePayloads == {<<>>, <<0>>, <<16>>, <<0, 0>>}

(***************************************************************************)
(* The specification of the command layer: calls of getError and of the    *)
(* commands that parse their answer, each on a transaction result the tag  *)
(* and the engine can produce.                                             *)
(***************************************************************************)
sessionvars == <<events, ticks, lasttick, born, other, spi, idle>>

GetError ==
    /\ \E flags \in ResponseFlags, data \in ErrorPayloads :
          call' = Call("getError", <<>>, <<>>, flags, data,
                       IF GetErrorRaises(flags, data) THEN CallRaised("IndexError")
                       ELSE CallReturned(PyNone, getError(flags, data)))
    /\ UNCHANGED <<memvars, txvars, sessionvars>>

InventoryCmd ==
    /\ \E flags \in ResponseFlags, data \in InventoryPayloads \cup ErrorPayloads :
          call' = Call("inventoryCmd", <<>>, inventoryFrame, flags, data,
                       inventoryCmd(flags, data))
    /\ UNCHANGED <<memvars, txvars, sessionvars>>

\* the tag answers with a reply built from its fields, with an error, or with
\* a reply cut short
GetSystemInformationCmd ==
    /\ \/ \E fs \in SysInfoFieldSets :
             LET data == SysInfoReply(fs[1], TagUid, fs[2], fs[3], fs[4], 1)
             IN  call' = Call("getSystemInformationCmd", fs,
                              getSystemInformationFrame(TagUid), 0, data,
                              getSystemInformationCmd(0, data))
       \/ \E flags \in ResponseFlags,
             data \in ErrorPayloads \cup {<<7>> \o TagUid, <<4>> \o TagUid \o <<1>>} :
             call' = Call("getSystemInformationCmd", <<>>,
                          getSystemInformationFrame(TagUid), flags, data,
                          getSystemInformationCmd(flags, data))
    /\ UNCHANGED <<memvars, txvars, sessionvars>>

WriteMultipleBlocksCmd ==
    /\ \E blockNumber \in 0..1, numBlocks \in 1..MaxBlocks,
          flags \in ResponseFlags, data \in WritePayloads :
          call' = Call("writeMultipleBlocksCmd", <<blockNumber, numBlocks>>,
                       writeMultipleBlocksFrame(blockNumber, numBlocks,
                                                Repeat(9, numBlocks), TagUid),
                       flags, data, writeMultipleBlocksCmd(numBlocks, flags, data))
    /\ UNCHANGED <<memvars, txvars, sessionvars>>

CommandsNext ==
    GetError \/ InventoryCmd \/ GetSystemInformationCmd \/ WriteMultipleBlocksCmd

SpecCommands == TxInit /\ [][CommandsNext]_vars

(***************************************************************************)
(* nfc.py: NfcReader.readHeader, as tick calls it (format=True).           *)
(***************************************************************************)
\* the UID of a second tag
OtherUid == <<224, 4, 9, 8, 7, 6, 5, 4>>

\* the first eight bytes of the memories of the tags in the field: a
\* capability container with the size in byte 2, one with the size in bytes
\* 6..7, a memory that was never formatted
HeaderContents ==
    {<<225, 64, 1, 1, 3, 0, 254, 0>>, <<225, 64, 0, 1, 0, 0, 0, 8>>,
     <<16, 17, 18, 19, 20, 21, 22, 23>>}

\* answers to the READ_MULTIPLE_BLOCK(0, n) of readHeader: blocks 0..n when
\* the tag has them and they fit in the chip's reception buffer; at any time
\* no answer, an error code, or an error flag with nothing after it
HeaderAnswers(t, n) ==
    {NoAnswer, Response(1, <<16>>), Response(1, <<>>)}
    \cup (IF n < t.num_blocks /\ (n + 1) * t.block_size <= RxBytesMask
          THEN {Response(0, [i \in 1..((n + 1) * t.block_size) |->
                                IF i <= Len(c) THEN c[i] ELSE 0]) :
                    c \in HeaderContents}
          ELSE {})

\* header = self.read(0, 8): the results read can give on tag t
HeaderRead(t) ==
    IF t.block_size = 0 THEN {Raised("read", "ZeroDivisionError", -1)}
    ELSE UNION {
           IF n = -1 THEN {Raised("read", "ValueError", -1)}
           ELSE {IF GetErrorRaises(r.flags, r.data)
                 THEN Raised("read", "IndexError", -1)
                 ELSE Returned("read", PySlice(r.data, 0, 8)) :
                    r \in HeaderAnswers(t, n)} :
           n \in ByteOnWire(ReadNumBlocks(0, 8, t.block_size))}

\* readHeader sets a field of the tag that is not one of its own
WithHeaderWrongField(t, header_size, mem_size) ==
    [t EXCEPT !.header_size = header_size, !.num_blocks = mem_size]

\* self.tag.header_size = header_size; self.tag.mem_size = mem_size
WithHeader(t, header_size, mem_size) ==
    [t EXCEPT !.header_size = header_size, !.mem_size = mem_size]

HeaderRaised(t) == [status |-> "raised", tag |-> t]
HeaderReturned(t) == [status |-> "returned", tag |-> t]

\* readHeader from `header_size = 4` on: the sizes are taken from the header
HeaderSized(t, header) ==
    IF Len(header) < 3 THEN {HeaderRaised(t)}
    ELSE IF header[3] # 0 THEN {HeaderReturned(WithHeader(t, 4, header[3] * 8))}
    ELSE IF Len(header) < 8 THEN {HeaderRaised(t)}
    ELSE {HeaderReturned(WithHeader(t, 8, (header[7] * 256 + header[8]) * 8))}

\* header[0] not in [0xE1, 0xE2] or header[1] & 0xFC != 0x40
HeaderUnformatted(header) ==
    header[1] \notin {225, 226} \/ BitAnd(header[2], 252) # 64

\* readHeader after the read: an unformatted tag is formatted (the write of
\* the new header raises or returns, as the tag answers it) and the new
\* header stands for the one read
HeaderParsed(t, header) ==
    IF Len(header) = 0 \/ (Len(header) = 1 /\ header[1] \in {225, 226})
    THEN {HeaderRaised(t)}
    ELSE IF HeaderUnformatted(header)
    THEN {HeaderRaised(t)}
         \cup HeaderSized(t, <<225, 64, (t.block_size * t.num_blocks) \div 8, 1,
                               0, 0, 0, 0>>)
    ELSE HeaderSized(t, header)

\* readHeader(format=True) on tag t: how it can end, and the tag then
readHeader(t) ==
    UNION {IF h.status = "raised" THEN {HeaderRaised(t)}
           ELSE HeaderParsed(t, h.value) :
              h \in HeaderRead(t)}

(***************************************************************************)
(* nfc.py: NfcReader.tick.  A tick runs to its end without suspension.     *)
(* The NDEF part after the 'New tag' print (lines 191-215) is a            *)
(* collaborator: it reads and writes the tag's memory, returns or raises,  *)
(* and touches neither the event prints nor the tag's identity.            *)
(***************************************************************************)
\* number of ticks in one behaviour
MaxTicks == 3

\* what the INVENTORY of a tick is answered: nothing, either tag, a payload
\* cut short, an error code, an error flag alone
TickInventoryAnswers ==
    {NoAnswer, Response(0, <<0>> \o TagUid), Response(0, <<0>> \o OtherUid),
     Response(0, <<0, 224, 4, 1, 2>>), Response(1, <<15>>), Response(1, <<>>)}

\* the fields of the tags in the field: all present with 2 blocks of 4
\* bytes, no block information, 1 block of 32 bytes
TickFieldSets ==
    {<<7, 5, 2, <<1, 3>>>>, <<3, 5, 2, <<1, 3>>>>, <<4, 0, 0, <<0, 31>>>>}

\* what the GET_SYSTEM_INFORMATION of a tick is answered by tag `uid`
TickSysInfoAnswers(uid) ==
    {[flags |-> 0, data |-> SysInfoReply(fs[1], uid, fs[2], fs[3], fs[4], 1),
      args |-> fs] : fs \in TickFieldSets}
    \cup {[flags |-> r.flags, data |-> r.data, args |-> <<>>] :
             r \in {NoAnswer, Response(1, <<15>>), Response(0, <<7>> \o uid)}}

\* the end of a tick: the tracked tag t, the prints, the NfcTag constructed
\* (NoTag: none), the commands called, in order
TickEnds(t, printed, inv, info, status, built, cmds) ==
    /\ tag' = t
    /\ mem' = IF t = tag THEN mem ELSE FreshMem(t.block_size, t.num_blocks)
    /\ events' = events \o printed
    /\ born' = IF built = NoTag THEN born
               ELSE [n |-> born.n + 1, uid |-> built.uid,
                     block_size |-> built.block_size,
                     num_blocks |-> built.num_blocks]
    /\ lasttick' = [before |-> tag, inventory |-> inv, info |-> info, cmds |-> cmds,
                    printed |-> printed, status |-> status]

\* a comparison that takes every inventory for a change
uidUnchangedNever(current_uid, last_uid) == FALSE

\* the negation of `current_uid != last_uid`
uidUnchanged(current_uid, last_uid) == current_uid = last_uid

tick ==
    /\ pc = "ready"
    /\ ticks < MaxTicks
    /\ ticks' = ticks + 1
    /\ UNCHANGED <<pc, req, wdata, wnext, rf, rs, res, lastw, writes>>
    /\ \E a \in TickInventoryAnswers :
          LET inv == Call("inventoryCmd", <<>>, inventoryFrame, a.flags, a.data,
                          inventoryCmd(a.flags, a.data))
              current_uid == inv.value
              last_uid == IF tag # NoTag THEN PyList(tag.uid) ELSE PyNone
              lost == IF tag # NoTag THEN <<"Tag lost">> ELSE <<>>
          IN  IF inv.status = "raised"
              THEN TickEnds(tag, <<>>, inv, NoCall, "raised", NoTag, <<"inventoryCmd">>)
              ELSE IF uidUnchanged(current_uid, last_uid)
              THEN TickEnds(tag, <<>>, inv, NoCall, "returned", NoTag,
                            <<"inventoryCmd">>)
              ELSE IF ~Truthy(current_uid)
              THEN TickEnds(NoTag, lost, inv, NoCall, "returned", NoTag,
                            <<"inventoryCmd">>)
              ELSE \E b \in TickSysInfoAnswers(current_uid.items) :
                      LET info == Call("getSystemInformationCmd", b.args,
                                       getSystemInformationFrame(current_uid.items),
                                       b.flags, b.data,
                                       getSystemInformationCmd(b.flags, b.data))
                          cmds2 == <<"inventoryCmd", "getSystemInformationCmd">>
                          cmds3 == Append(cmds2, "readHeader")
                          built == NfcTag(current_uid.items, info.value.block_size,
                                          info.value.num_blocks)
                      IN  IF info.status = "raised"
                          THEN TickEnds(NoTag, lost, inv, info, "raised", NoTag, cmds2)
                          ELSE IF ~Truthy(info.value)
                          THEN TickEnds(NoTag, lost, inv, info, "returned", NoTag, cmds2)
                          ELSE \E h \in readHeader(built) :
                                  IF h.status = "raised"
                                  THEN TickEnds(h.tag, lost, inv, info, "raised",
                                                built, cmds3)
                                  ELSE \E rest \in {"returned", "raised"} :
                                          TickEnds(h.tag, lost \o <<"New tag">>, inv,
                                                   info, rest, built,
                                                   Append(cmds3, "ndef"))

(***************************************************************************)
(* The specification of the tag session: ticks, and between them reads and *)
(* writes on the tracked tag.                                              *)
(***************************************************************************)
Tick == tick /\ UNCHANGED <<txvars, call, other, spi, idle>>

SessionRead == read(1, 2) /\ UNCHANGED <<txvars, othervars>>

SessionWriteBegin == writeBegin(1, <<9, 9>>) /\ UNCHANGED <<txvars, othervars>>

SessionNext == Tick \/ SessionRead \/ SessionWriteBegin \/ WriteChunk \/ Return

SpecSession == TxInit /\ [][SessionNext]_vars

(***************************************************************************)
(* Two cooperative tasks on one chip.  transactionIsoIec15693 takes no     *)
(* lock: a task is suspended at the sleep inside every transport exchange  *)
(* (SpiMicropython.xfer) and at the sleep of the poll loops, and the       *)
(* scheduler then runs the other task, which may call the transaction too. *)
(* The variables of the engine are the locals of the running task; `other` *)
(* holds those of the suspended one; the chip is shared.  No tag is in the *)
(* field, so neither transaction goes beyond phase A.                      *)
(***************************************************************************)
\* the locals of the running task
Locals ==
    [txpc |-> txpc, command |-> command, left |-> left, irq_status |-> irq_status,
     regvalue |-> regvalue, nbBytes |-> nbBytes, seenA |-> seenA, txlog |-> txlog,
     txres |-> txres]

\* a task is between the entry of transactionIsoIec15693 and its end
InTransaction(p) == p \notin {"idle", "done"}

\* the running task is suspended at an await and the other one goes on; time
\* has passed for it meanwhile
Switch ==
    /\ other' = Locals
    /\ txpc' = other.txpc
    /\ command' = other.command
    /\ \E d \in 0..MaxStep :
          left' = IF other.txpc \in {"pollA", "loopA", "pollB", "loopB"}
                  THEN Elapsed(other.left, d)
                  ELSE other.left
    /\ irq_status' = other.irq_status
    /\ regvalue' = other.regvalue
    /\ nbBytes' = other.nbBytes
    /\ seenA' = other.seenA
    /\ txlog' = other.txlog
    /\ txres' = other.txres
    /\ UNCHANGED <<sysConfig, irqStatus, rfStatus, rxBuf, pending, air>>
    /\ UNCHANGED <<memvars, call, events, ticks, lasttick, born, spi, idle>>

\* SEND_DATA with no tag in the field
TaskSend ==
    /\ TxSend
    /\ pending' = <<>>
    /\ rxBuf' = rxBuf

TasksNext ==
    \/ TxStart \/ TxClearIrq \/ TxSetTransceive \/ TxCheckState \/ TaskSend
    \/ TxPollA \/ TxLoopA \/ TxReturn
    \/ Switch

SpecTasks == TxInit /\ [][TasksNext]_vars

\* C12: when two cooperative tasks call transactionIsoIec15693 on one chip,
\* the steps of one transaction are never interleaved with steps of the
\* other: while a transaction is in progress and suspended, no second
\* transaction starts or advances.
NoInterleavedTransactions ==
    ~(InTransaction(txpc) /\ InTransaction(other.txpc))

\* C11: whenever a call of transactionIsoIec15693 has ended, by whatever exit
\* path after the mode was set to TRANSCEIVE (the failure of the
\* WAIT_TRANSMIT check included), the command field of SYSTEM_CONFIG is IDLE,
\* and so it is between transactions.
IdleOnEveryExit ==
    /\ (txpc = "done" /\ InLog("TRANSCEIVE")) => CommandField = COMMAND_IDLE_SET
    /\ txpc = "idle" => CommandField = COMMAND_IDLE_SET

(***************************************************************************)
(* Properties of the command layer (under SpecCommands).                   *)
(***************************************************************************)
\* the digits of n >= 0 in base 16
RECURSIVE HexDigits(_)
HexDigits(n) ==
    IF n < 16 THEN DigitChars[n + 1]
    ELSE HexDigits(n \div 16) \o DigitChars[(n % 16) + 1]

\* the ways of writing a code as raw hex: with or without 0x, with or
\* without a leading zero
RawHex(n) ==
    {HexDigits(n), "0" \o HexDigits(n), "0x" \o HexDigits(n), "0x0" \o HexDigits(n)}

\* C17: the classification of a result is a total three-way partition of
\* the response flags: 0xFF gives the no-answer message, any other nonzero
\* value the table text of payload[0] (flags 0x01, payload [0x10]: the
\* 'specified block is not available' text), a code not in the table being
\* rendered as raw hex, and 0 gives success.
ResultClassification ==
    call.cmd = "getError" =>
        /\ call.status = "returned"
        /\ call.flags = NoAnswerFlags =>
              call.error = "Transaction ERROR: No Answer from tag"
        /\ call.flags = 0 => call.error = "Transaction OK"
        /\ call.flags \notin {0, NoAnswerFlags} =>
              /\ call.data[1] \in ErrorCodes =>
                    call.error = "Transaction ERROR: " \o ERROR_CODE[call.data[1]]
              /\ call.data[1] = 16 =>
                    call.error = "Transaction ERROR: The specified block is not available (doesn t exist)."
              /\ call.data[1] \notin ErrorCodes =>
                    call.error \in {"Transaction ERROR: " \o h : h \in RawHex(call.data[1])}

\* C18: inventoryCmd returns (UID, "") with UID = payload bytes 1..8 only
\* when the response flags are 0 and the payload has at least 9 bytes; with
\* flags 0 and a shorter payload it returns (None, no-answer message), and
\* with any nonzero flags it returns (None, errorMessage).
InventoryClassification ==
    call.cmd = "inventoryCmd" =>
        /\ call.status = "returned"
        /\ (call.flags = 0 /\ Len(call.data) >= 9) =>
              /\ call.value = PyList(SubSeq(call.data, 2, 9))
              /\ call.error = ""
        /\ (call.flags = 0 /\ Len(call.data) < 9) =>
              /\ call.value = PyNone
              /\ call.error = "Transaction ERROR: No Answer from tag"
        /\ call.flags # 0 =>
              /\ call.value = PyNone
              /\ call.error \notin {"", "Transaction OK"}

WriteMultipleSuccessNeedsCount ==
    call.cmd = "writeMultipleBlocksCmd" =>
        LET success == call.status = "returned" /\ call.error = "Transaction OK"
        IN  /\ success => Len(call.data) = call.args[2]
            /\ Len(call.data) # call.args[2] => ~success

(***************************************************************************)
(* Properties of the tag session (under SpecSession).                      *)
(***************************************************************************)
\* the geometry a GET_SYSTEM_INFORMATION reply built from the fields fs
\* carries: blockSize and numBlocks, 0 when the block information is absent
RepliedBlockSize(fs) == IF (fs[1] \div 4) % 2 = 1 THEN (fs[4][2] % 32) + 1 ELSE 0
RepliedNumBlocks(fs) == IF (fs[1] \div 4) % 2 = 1 THEN fs[4][1] + 1 ELSE 0

EventsAlternate ==
    /\ \A i \in 1..Len(events) :
          events[i] = (IF i % 2 = 1 THEN "New tag" ELSE "Tag lost")
    /\ lasttick.printed \in
          {<<>>, <<"Tag lost">>, <<"New tag">>, <<"Tag lost", "New tag">>}
    /\ (tag # NoTag) <=> (events # <<>> /\ events[Len(events)] = "New tag")

\* C15: every tag the session tracks has blockSize in 1..32 and numBlocks in
\* 1..256, whatever info flags the GET_SYSTEM_INFORMATION reply carried.
TagGeometryInRange ==
    tag # NoTag =>
        /\ tag.block_size \in 1..32
        /\ tag.num_blocks \in 1..256

\* C16: from the tick that starts tracking a tag to the tick that drops it
\* the tag's UID, blockSize and numBlocks are those it was constructed with:
\* no tick, read or write changes them, and another inventory UID puts a new
\* Tag in its place.
TagIdentityFixed ==
    tag # NoTag =>
        /\ born.n > 0
        /\ tag.uid = born.uid
        /\ tag.block_size = born.block_size
        /\ tag.num_blocks = born.num_blocks

\* the tracked tag has been through a tick that saw its UID again, its header
\* was read and a write to it has returned
TagIdentityFixedWitness ==
    /\ tag # NoTag
    /\ lasttick.before = tag
    /\ lasttick.cmds = <<"inventoryCmd">>
    /\ lasttick.status = "returned"
    /\ tag.header_size # 0
    /\ lastw.ok

(***************************************************************************)
(* iso_iec_15693.py: the frame every command builds and what the command   *)
(* does with it.  A command called without a UID has uid = [] (the default *)
(* of the parameter).                                                      *)
(***************************************************************************)
\* iso_iec_15693.CMD_CODE
CMD_CODE ==
    [INVENTORY |-> 1, STAY_QUIET |-> 2, READ_SINGLE_BLOCK |-> 32,
     WRITE_SINGLE_BLOCK |-> 33, LOCK_BLOCK |-> 34, READ_MULTIPLE_BLOCK |-> 35,
     WRITE_MULTIPLE_BLOCK |-> 36, SELECT |-> 37, RESET_READY |-> 38,
     WRITE_AFI |-> 39, LOCK_AFI |-> 40, WRITE_DSFID |-> 41, LOCK_DSFID |-> 42,
     GET_SYSTEM_INFORMATION |-> 43, GET_MULTIPLE_BLOCK_SECURITY_STATUS |-> 44,
     GET_SYSTEM_INFORMATION_EXT |-> 59, CUSTOM_READ_SINGLE |-> 192]

\* self.CMD_CODE[...] in each command
CodeOf(cmd) ==
    CASE cmd = "inventoryCmd" -> CMD_CODE.INVENTORY
      [] cmd = "stayQuietCmd" -> CMD_CODE.STAY_QUIET
      [] cmd = "readSingleBlockCmd" -> CMD_CODE.READ_SINGLE_BLOCK
      [] cmd = "writeSingleBlockCmd" -> CMD_CODE.WRITE_SINGLE_BLOCK
      [] cmd = "lockBlockCmd" -> CMD_CODE.LOCK_BLOCK
      [] cmd = "readMultipleBlocksCmd" -> CMD_CODE.READ_MULTIPLE_BLOCK
      [] cmd = "writeMultipleBlocksCmd" -> CMD_CODE.WRITE_MULTIPLE_BLOCK
      [] cmd = "selectCmd" -> CMD_CODE.SELECT
      [] cmd = "resetToReadyCmd" -> CMD_CODE.RESET_READY
      [] cmd = "writeAfiCmd" -> CMD_CODE.WRITE_AFI
      [] cmd = "lockAfiCmd" -> CMD_CODE.LOCK_AFI
      [] cmd = "writeDsfidCmd" -> CMD_CODE.WRITE_DSFID
      [] cmd = "locckDsfidCmd" -> CMD_CODE.LOCK_DSFID
      [] cmd = "getSystemInformationCmd" -> CMD_CODE.GET_SYSTEM_INFORMATION
      [] cmd = "getSystemInformationExtCmd" -> CMD_CODE.GET_SYSTEM_INFORMATION_EXT
      [] cmd = "getMultipleBlockSecurityStatusCmd" ->
             CMD_CODE.GET_MULTIPLE_BLOCK_SECURITY_STATUS
      [] cmd = "customReadSinlge" -> CMD_CODE.CUSTOM_READ_SINGLE

\* getSystemInformationExtCmd: frame.insert(2, 0x1F), the info flags asked for
InfoFlagsRequest == 31

\* the manufacturer code (NXP) the model passes to customReadSinlge
MfCode == 4

\* a frame head that leaves the addressed flag out
FrameHeadAfterUnaddressed(code, extra, uid) ==
    <<DefaultFlags, code>> \o extra \o uid

\* the head of a frame whose command puts bytes at index 2 before the test of
\* the UID: flags, code, those bytes, then the UID
FrameHeadAfter(code, extra, uid) ==
    IF UidIsNotEmptyList(uid)
    THEN <<OrAddressed(DefaultFlags), code>> \o extra \o uid
    ELSE <<DefaultFlags, code>> \o extra

\* the frame command `cmd` builds from uid and from its other arguments, which
\* it appends after the UID in the order of its parameters (params: their
\* bytes):
\*   inventoryCmd                       0x26, code, mask length 0
\*   stayQuietCmd, selectCmd            self.flags | 0x20, code, uid
\*   getSystemInformationExtCmd         flags, code, 0x1F, then the uid test
\*   customReadSinlge                   flags, code, mfCode, then the uid test
\*                                      (firstBlockNumber of two bytes)
\*   every other command                flags, code, the uid test, arguments
CommandFrame(cmd, uid, params) ==
    CASE cmd = "inventoryCmd" -> inventoryFrame
      [] cmd \in {"stayQuietCmd", "selectCmd"} ->
             <<OrAddressed(DefaultFlags), CodeOf(cmd)>> \o uid
      [] cmd = "getSystemInformationExtCmd" ->
             FrameHeadAfter(CodeOf(cmd), <<InfoFlagsRequest>>, uid)
      [] cmd = "customReadSinlge" ->
             FrameHeadAfter(CodeOf(cmd), <<MfCode>>, uid) \o params
      [] OTHER -> FrameHead(CodeOf(cmd), uid) \o params

(***************************************************************************)
(* The specification of the frames: calls of the commands of               *)
(* iso_iec_15693, with and without a UID, each answered by the tag or not. *)
(* rf and rs hold the frames the call handed to transactionIsoIec15693 and *)
(* the results it got; call.args is the UID and the other arguments as the *)
(* bytes they put in the frame.                                            *)
(***************************************************************************)
\* the uid argument: the UID of the tag, or [] when the caller leaves it out
UidArgs == {TagUid, <<>>}

\* the commands that end with
\*     error = self.getError(flags, data); return data, error
\* each with the arguments the model calls it with
DataAndErrorCmds ==
    {<<"lockAfiCmd", <<>>>>, <<"locckDsfidCmd", <<>>>>, <<"resetToReadyCmd", <<>>>>,
     <<"getSystemInformationExtCmd", <<>>>>}
    \cup {<<c, <<b>>>> : c \in {"readSingleBlockCmd", "lockBlockCmd"}, b \in 0..1}
    \cup {<<c, <<b, 1>>>> : c \in {"readMultipleBlocksCmd",
                                   "getMultipleBlockSecurityStatusCmd"}, b \in 0..1}
    \cup {<<"writeSingleBlockCmd", <<b, 9, 9>>>> : b \in 0..1}
    \cup {<<"writeMultipleBlocksCmd", <<b, 1, 9>>>> : b \in 0..1}
    \cup {<<c, <<v>>>> : c \in {"writeAfiCmd", "writeDsfidCmd"}, v \in 2..3}
    \cup {<<"customReadSinlge", <<b, 0>>>> : b \in 0..1}

\* what the transaction of a command gives back: no answer, an error code, an
\* error flag alone, success without and with payload
CommandAnswers ==
    {NoAnswer, Response(1, <<16>>), Response(1, <<>>), Response(0, <<>>),
     Response(0, <<7, 8>>)}

\* the command hands its frame to transactionIsoIec15693 once, gets r, and
\* ends with `result`
Transacts(cmd, uid, params, r, result) ==
    /\ call' = Call(cmd, <<uid, params>>, CommandFrame(cmd, uid, params),
                    r.flags, r.data, result)
    /\ rf' = <<CommandFrame(cmd, uid, params)>>
    /\ rs' = <<r>>
    /\ UNCHANGED <<tag, mem, pc, req, wdata, wnext, res, lastw, writes>>

\* stayQuietCmd builds its frame and ends: the frame goes nowhere, the
\* coroutine gives None
StayQuietCmd ==
    /\ call' = Call("stayQuietCmd", <<TagUid, <<>>>>,
                    CommandFrame("stayQuietCmd", TagUid, <<>>), 0, <<>>,
                    CallReturned(PyNone, ""))
    /\ rf' = <<>>
    /\ rs' = <<>>
    /\ UNCHANGED <<tag, mem, pc, req, wdata, wnext, res, lastw, writes>>
    /\ UNCHANGED <<txvars, sessionvars>>

SelectCmd ==
    /\ \E r \in CommandAnswers :
           Transacts("selectCmd", TagUid, <<>>, r, dataAndError(r.flags, r.data))
    /\ UNCHANGED <<txvars, sessionvars>>

InventoryCall ==
    /\ \E r \in CommandAnswers \cup {Response(0, <<0>> \o TagUid)} :
           Transacts("inventoryCmd", <<>>, <<>>, r, inventoryCmd(r.flags, r.data))
    /\ UNCHANGED <<txvars, sessionvars>>

GetSystemInformationCall ==
    /\ \E uid \in UidArgs,
          r \in CommandAnswers
                \cup {Response(0, SysInfoReply(7, TagUid, 5, 2, <<1, 3>>, 1))} :
           Transacts("getSystemInformationCmd", uid, <<>>, r,
                     getSystemInformationCmd(r.flags, r.data))
    /\ UNCHANGED <<txvars, sessionvars>>

\* a call of one of the commands that give back (data, error)
DataAndErrorCmd ==
    /\ \E c \in DataAndErrorCmds, uid \in UidArgs, r \in CommandAnswers :
           Transacts(c[1], uid, c[2], r, dataAndError(r.flags, r.data))
    /\ UNCHANGED <<txvars, sessionvars>>

FramesNext ==
    StayQuietCmd \/ SelectCmd \/ InventoryCall \/ GetSystemInformationCall
    \/ DataAndErrorCmd

SpecFrames == TxInit /\ [][FramesNext]_vars

(***************************************************************************)
(* Properties of the frames (under SpecFrames).                            *)
(***************************************************************************)
\* a command has been called with the 8 bytes of a UID
CalledWithUid == call.cmd # "none" /\ Len(call.args[1]) = 8

\* bit 0x20 of a frame's request flags
AddressedBit(frame) == (frame[1] \div AddressedFlag) % 2 = 1

\* C21: for every command that takes a UID, when an 8-byte UID is supplied
\* the frame has bit 0x20 of the request flags set, the command code at byte
\* 1 and the 8 UID bytes at bytes 2..9, directly after the command code,
\* followed by the command's parameters.
UidFollowsCode ==
    CalledWithUid =>
        /\ Len(call.frame) >= 10
        /\ AddressedBit(call.frame)
        /\ call.frame[2] = CodeOf(call.cmd)
        /\ SubSeq(call.frame, 3, 10) = call.args[1]
        /\ SubSeq(call.frame, 11, Len(call.frame)) = call.args[2]

\* the bytes a command puts between its code and the UID: the info flags
\* request of GET_SYSTEM_INFORMATION_EXT, the manufacturer code of a custom
\* command
BeforeUid(cmd) ==
    CASE cmd = "getSystemInformationExtCmd" -> <<31>>
      [] cmd = "customReadSinlge" -> <<4>>
      [] OTHER -> <<>>

\* C21, amended: when an 8-byte UID is supplied the frame is the request
\* flags with bit 0x20 set, the command code at byte 1, the 8 UID bytes and
\* then the command's parameters; the UID follows the command code directly
\* except in getSystemInformationExtCmd and customReadSinlge, where one byte
\* (the info flags request 0x1F, the manufacturer code) stands between them
\* and the UID is at bytes 3..10.
UidFollowsCodeOrRequestByte ==
    CalledWithUid =>
        /\ AddressedBit(call.frame)
        /\ call.frame =
              <<call.frame[1], CodeOf(call.cmd)>> \o BeforeUid(call.cmd)
                  \o call.args[1] \o call.args[2]

\* getSystemInformationExtCmd has been called with the UID of the tag and
\* has sent its frame
UidFollowsCodeOrRequestByteWitness ==
    /\ call.cmd = "getSystemInformationExtCmd"
    /\ call.args[1] = TagUid
    /\ call.frame = <<34, 59, 31>> \o TagUid
    /\ rf = <<call.frame>>

\* a command whose uid parameter is optional has been called
CalledOptionalUid ==
    call.cmd \notin {"none", "inventoryCmd", "stayQuietCmd", "selectCmd"}

\* C27: bit 0x20 of the request flags marks UID-present mode in both
\* directions: a command that takes an optional UID and is called without
\* one sends a frame with bit 0x20 clear and no UID bytes in it, so the bit
\* is set if and only if an 8-byte UID is in the frame.
AddressedIffUid ==
    CalledOptionalUid =>
        /\ AddressedBit(call.frame) <=> Len(call.args[1]) = 8
        /\ call.args[1] = <<>> =>
              /\ ~AddressedBit(call.frame)
              /\ call.frame =
                    <<call.frame[1], CodeOf(call.cmd)>> \o BeforeUid(call.cmd)
                        \o call.args[2]
        /\ \A i \in 1..Len(rf) : rf[i] = call.frame

\* C23: each command call (inventory, stay-quiet, read/write single and
\* multiple block, lock, select, reset-to-ready, AFI/DSFID,
\* get-system-information) performs exactly one transceive transaction: its
\* frame is transmitted once, and not again after a no-answer or tag-error
\* result.
OneTransactionPerCommand ==
    call.cmd # "none" =>
        /\ Len(rf) = 1
        /\ Len(rs) = 1
        /\ rf[1] = call.frame

(***************************************************************************)
(* More properties of the tag memory layer (under Spec).                   *)
(***************************************************************************)
\* C22: when the READ_MULTIPLE_BLOCK of read ends in no answer or in a tag
\* error (nonzero response flags), read reports the error to its caller: it
\* does not return, neither bytes of the error response nor an empty result.
ReadReportsErrors ==
    (InCall("read") /\ pc = "done" /\ Len(rs) = 1 /\ rs[1].flags # 0) =>
        /\ res.status = "raised"
        /\ res.value = <<>>

\* C30: a read or write request that lies within [0, blockSize*numBlocks)
\* of the tracked tag causes no RF command that addresses a block index
\* >= numBlocks; a write whose data ends exactly at the end of the last
\* block issues no WRITE_SINGLE_BLOCK for block index numBlocks.
NoBlockBeyondTag ==
    (/\ tag # NoTag
     /\ req.op \in {"read", "write"}
     /\ req.offset + req.bytes <= tag.block_size * tag.num_blocks) =>
        \A i \in 1..Len(rf) :
            IF req.op = "read"
            THEN FrameBlock(rf[i]) + FrameCount(rf[i]) < tag.num_blocks
            ELSE FrameBlock(rf[i]) < tag.num_blocks

(***************************************************************************)
(* More properties of the transceive engine (under SpecTransceive).        *)
(***************************************************************************)
\* C28: the IRQ clear at the start of a transaction clears both IRQ bits the
\* transaction polls, RX-start (bit 14) and RX-complete (bit 0): an RX-start
\* flag left set by an earlier transaction never satisfies phase A of a
\* later transaction to which no tag responds.
IrqClearClearsPolledBits ==
    /\ txpc = "setTransceive" =>
          /\ BitAnd(toInt32(irqStatus), RX_SOF_DET_IRQ_STAT) = 0
          /\ BitAnd(toInt32(irqStatus), RX_IRQ_STAT) = 0
    /\ (InLog("IRQ_STATUS_A") /\ pending = <<>>) => ~seenA

\* the chip operations of a transaction that goes through both phases, and
\* of one that ends at the phase A timeout
FullOrder ==
    <<"IRQ_CLEAR", "TRANSCEIVE", "RF_STATUS", "SEND_DATA", "IRQ_STATUS_A",
      "IRQ_STATUS_B", "RX_STATUS", "READ_DATA", "IDLE">>
ShortOrder ==
    <<"IRQ_CLEAR", "TRANSCEIVE", "RF_STATUS", "SEND_DATA", "IRQ_STATUS_A", "IDLE">>

IsPrefix(a, b) == Len(a) <= Len(b) /\ a = SubSeq(b, 1, Len(a))

\* C29: within one transaction the chip operations occur in the order IRQ
\* clear, set TRANSCEIVE, read of the transceive state, SEND_DATA, IRQ
\* polling, then, only after phase A succeeded, the RX-status read and
\* READ_DATA of exactly the low 9 bits of RX_STATUS bytes, then set IDLE;
\* SEND_DATA never precedes the state check and READ_DATA never precedes
\* SEND_DATA.
FixedOperationOrder ==
    /\ IsPrefix(txlog, FullOrder) \/ IsPrefix(txlog, ShortOrder)
    /\ (txpc = "done" /\ txres.status = "returned") => txlog \in {FullOrder, ShortOrder}
    /\ InLog("IRQ_STATUS_B") => seenA
    /\ InLog("RX_STATUS") => (nbBytes < 512 /\ nbBytes <= Len(rxBuf))
    /\ (txpc = "done" /\ InLog("READ_DATA")) =>
          Len(txres.data) = (IF nbBytes = 0 THEN 0 ELSE nbBytes - 1)

\* a transaction has gone through both phases and has read an answer of
\* three bytes
FixedOperationOrderWitness ==
    /\ txpc = "done"
    /\ txlog = FullOrder
    /\ nbBytes = 3
    /\ txres = TxReturned(0, <<7, 8>>)

(***************************************************************************)
(* The specification of the return to IDLE: clearIrqStatus followed by     *)
(* setSystemCommand("COMMAND_IDLE_SET"), done in a row on a chip whose     *)
(* registers hold anything.                                                *)
(***************************************************************************)
\* number of pairs done in a row
MaxPairs == 2

\* chip: SYSTEM_CONFIG with each command, with and without START_SEND (bit
\* 3) and SOFT_RESET (bit 8)
SystemConfigStates == {<<c + 8 * s, r, 0, 0>> : c \in 0..7, s \in 0..1, r \in 0..1}

\* chip: IRQ_STATUS with none, some and all of its low flags, with and
\* without RX_SOF_DET_IRQ_STAT (bit 14)
IrqStatusStates == {<<l, h, 0, 0>> : l \in {0, 1, 7, 255}, h \in {0, 64}}

IdleInit ==
    /\ tag = NoTag
    /\ mem = <<>>
    /\ MemAtRest
    /\ OthersAtRest
    /\ txpc = "idle"
    /\ command = <<>>
    /\ sysConfig \in SystemConfigStates
    /\ irqStatus \in IrqStatusStates
    /\ rfStatus = toList(0)
    /\ rxBuf = <<>>
    /\ pending = <<>>
    /\ air = "quiet"
    /\ left = 0
    /\ irq_status = 0
    /\ regvalue = 0
    /\ nbBytes = 0
    /\ seenA = FALSE
    /\ txlog = <<>>
    /\ txres = TxNone

\* await self.clearIrqStatus()
ClearIrqStatus ==
    /\ idle.at = "clearIrq"
    /\ Len(idle.pairs) < MaxPairs
    /\ irqStatus' = clearIrqStatus(irqStatus)
    /\ idle' = [idle EXCEPT !.at = "setIdle",
                            !.start = IF idle.pairs = <<>>
                                      THEN [sysConfig |-> sysConfig,
                                            irqStatus |-> irqStatus]
                                      ELSE @]
    /\ UNCHANGED <<txpc, command, sysConfig, rfStatus, rxBuf, pending, air, left,
                   irq_status, regvalue, nbBytes, seenA, txlog, txres>>
    /\ UNCHANGED <<memvars, call, events, ticks, lasttick, born, other, spi>>

\* await self.setSystemCommand("COMMAND_IDLE_SET")
SetSystemCommandIdle ==
    /\ idle.at = "setIdle"
    /\ sysConfig' = setSystemCommand(sysConfig, COMMAND_IDLE_SET)
    /\ idle' = [idle EXCEPT !.at = "clearIrq",
                            !.pairs = Append(@, [sysConfig |-> sysConfig',
                                                 irqStatus |-> irqStatus])]
    /\ UNCHANGED <<txpc, command, irqStatus, rfStatus, rxBuf, pending, air, left,
                   irq_status, regvalue, nbBytes, seenA, txlog, txres>>
    /\ UNCHANGED <<memvars, call, events, ticks, lasttick, born, other, spi>>

IdleNext == ClearIrqStatus \/ SetSystemCommandIdle

SpecIdle == IdleInit /\ [][IdleNext]_vars

\* C26: from any register state, clearIrqStatus followed by
\* setSystemCommand(IDLE), done twice in a row, leaves the command field of
\* SYSTEM_CONFIG at IDLE after each pair, and the registers after the second
\* pair as they were after the first; setSystemCommand changes only the 3
\* command bits of SYSTEM_CONFIG.
IdleIsIdempotent ==
    /\ \A i \in 1..Len(idle.pairs) :
          /\ idle.pairs[i].sysConfig[1] % 8 = COMMAND_IDLE_SET
          /\ idle.pairs[i].sysConfig[1] \div 8 = idle.start.sysConfig[1] \div 8
          /\ \A b \in 2..4 : idle.pairs[i].sysConfig[b] = idle.start.sysConfig[b]
          /\ idle.pairs[i] = idle.pairs[1]
    /\ idle.at = "clearIrq" /\ idle.pairs # <<>> =>
          idle.pairs[Len(idle.pairs)] = [sysConfig |-> sysConfig, irqStatus |-> irqStatus]

\* two pairs have been done on a chip that was in TRANSCEIVE with START_SEND
\* and SOFT_RESET set and with IRQ flags pending
IdleIsIdempotentWitness ==
    /\ Len(idle.pairs) = 2
    /\ idle.start.sysConfig = <<11, 1, 0, 0>>
    /\ idle.start.irqStatus = <<7, 64, 0, 0>>
    /\ sysConfig = <<8, 1, 0, 0>>

(***************************************************************************)
(* The command codec (PN5180_HIL): each call as the exchanges it makes on  *)
(* the transport.  An exchange gives back as many bytes as it is given, or *)
(* raises.                                                                 *)
(***************************************************************************)
\* PN5180_HIL.CMD
CMD ==
    [WRITE_REGISTER |-> 0, WRITE_REGISTER_OR_MASK |-> 1,
     WRITE_REGISTER_AND_MASK |-> 2, READ_REGISTER |-> 4, READ_EEPROM |-> 7]

\* PN5180_HIL.REG_ADDR
REG_ADDR == [SYSTEM_CONFIG |-> 0, IRQ_STATUS |-> 2]

\* a Python int of 0..2^32-1 as its two 16-bit halves (the integers of the
\* model checker end at 2^31-1)
Num32(hi, lo) == [hi |-> hi, lo |-> lo]

\* struct.pack with the bytes in the other order
packBigEndian(num32) ==
    <<num32.hi \div 256, num32.hi % 256, num32.lo \div 256, num32.lo % 256>>

\* _toList on such an int: list(struct.pack("<I", num32))
pack(num32) ==
    <<num32.lo % 256, num32.lo \div 256, num32.hi % 256, num32.hi \div 256>>

\* _toInt32 giving such an int: struct.unpack("<I", bytes(byte_list))[0]
unpack(byte_list) ==
    Num32(byte_list[3] + 256 * byte_list[4], byte_list[1] + 256 * byte_list[2])

\* the 16-bit halves of the values written: 0x0000, 0x0201 and 0xFFFF
Halves == {0, 513, 65535}

\* the values of the content / orMask / andMask arguments
CodecValues == {Num32(hi, lo) : hi \in Halves, lo \in Halves}

\* the longest EEPROM read
MaxEepromLength == 2

\* chip: the bytes an EEPROM cell may hold
EepromBytes == {4, 255}

\* EEPROM_ADDR["FIRMWARE_VERSION"]
FIRMWARE_VERSION == 18

\* chip: the register at an address
RegisterAt(address) ==
    IF address = REG_ADDR.SYSTEM_CONFIG THEN sysConfig ELSE irqStatus

\* _sendCommand asking for the response whatever became of the command
sendCommandRegardless(cmd, parameters, responseLen, reply, fails) ==
    LET first == [tx |-> <<cmd>> \o parameters, rx |-> <<>>, ok |-> fails # 1]
        second == [tx |-> Repeat(255, responseLen),
                   rx |-> IF fails = 2 THEN <<>> ELSE reply, ok |-> fails # 2]
    IN  IF responseLen = 0 THEN <<first>> ELSE <<first, second>>

\* _sendCommand(cmd, parameters, responseLen) and _getResponse(responseLen):
\* the exchange of [cmd] + parameters, then, if a response is expected,
\* the exchange of responseLen bytes 0xFF that clocks in `reply`.  `fails`
\* is the number of the exchange that raises (0: none); nothing follows it.
sendCommand(cmd, parameters, responseLen, reply, fails) ==
    LET first == [tx |-> <<cmd>> \o parameters, rx |-> <<>>, ok |-> fails # 1]
        second == [tx |-> Repeat(255, responseLen),
                   rx |-> IF fails = 2 THEN <<>> ELSE reply, ok |-> fails # 2]
    IN  IF fails = 1 \/ responseLen = 0 THEN <<first>> ELSE <<first, second>>

\* a call of a codec function with its exchanges: it returns `value` if no
\* exchange raised, and raises what the exchange raised otherwise
CodecCall(fn, address, arg, length, xfers, value) ==
    LET ok == xfers[Len(xfers)].ok
    IN  [fn |-> fn, address |-> address, arg |-> arg, length |-> length,
         xfers |-> xfers, status |-> IF ok THEN "returned" ELSE "raised",
         value |-> IF ok THEN value ELSE <<>>]

\* a write function of the codec on SYSTEM_CONFIG; the chip takes the
\* command of an exchange that went through
codecWrite(fn, cmd, num32, written) ==
    \E fails \in 0..1 :
        /\ spi' = CodecCall(fn, REG_ADDR.SYSTEM_CONFIG, num32, 0,
                            sendCommand(cmd, <<REG_ADDR.SYSTEM_CONFIG>> \o pack(num32),
                                        0, <<>>, fails),
                            <<>>)
        /\ sysConfig' = IF fails = 0 THEN written ELSE sysConfig

\* await writeRegister(address, content), content an int
WriteRegister ==
    /\ \E content \in CodecValues :
          codecWrite("writeRegister", CMD.WRITE_REGISTER, content, pack(content))
    /\ UNCHANGED <<txpc, command, irqStatus, rfStatus, rxBuf, pending, air, left,
                   irq_status, regvalue, nbBytes, seenA, txlog, txres>>
    /\ UNCHANGED <<memvars, call, events, ticks, lasttick, born, other, idle>>

\* await writeRegisterOrMask(address, orMask)
WriteRegisterOrMask ==
    /\ \E orMask \in CodecValues :
          codecWrite("writeRegisterOrMask", CMD.WRITE_REGISTER_OR_MASK, orMask,
                     OrMasked(sysConfig, pack(orMask)))
    /\ UNCHANGED <<txpc, command, irqStatus, rfStatus, rxBuf, pending, air, left,
                   irq_status, regvalue, nbBytes, seenA, txlog, txres>>
    /\ UNCHANGED <<memvars, call, events, ticks, lasttick, born, other, idle>>

\* await writeRegisterAndMask(address, andMask)
WriteRegisterAndMask ==
    /\ \E andMask \in CodecValues :
          codecWrite("writeRegisterAndMask", CMD.WRITE_REGISTER_AND_MASK, andMask,
                     AndMasked(sysConfig, pack(andMask)))
    /\ UNCHANGED <<txpc, command, irqStatus, rfStatus, rxBuf, pending, air, left,
                   irq_status, regvalue, nbBytes, seenA, txlog, txres>>
    /\ UNCHANGED <<memvars, call, events, ticks, lasttick, born, other, idle>>

\* await readRegister(address)
ReadRegister ==
    /\ \E address \in {REG_ADDR.SYSTEM_CONFIG, REG_ADDR.IRQ_STATUS}, fails \in 0..2 :
          LET regList == RegisterAt(address)
          IN  spi' = CodecCall("readRegister", address, Num32(0, 0), 4,
                               sendCommand(CMD.READ_REGISTER, <<address>>, 4,
                                           regList, fails),
                               unpack(regList))
    /\ UNCHANGED <<memvars, txvars, call, events, ticks, lasttick, born, other, idle>>

\* await readEeprom(address, length)
ReadEeprom ==
    /\ \E length \in 0..MaxEepromLength, fails \in 0..2 :
          \E reply \in [1..length -> EepromBytes] :
              spi' = CodecCall("readEeprom", FIRMWARE_VERSION, Num32(0, 0), length,
                               sendCommand(CMD.READ_EEPROM,
                                           <<FIRMWARE_VERSION, length>>, length,
                                           reply, fails),
                               reply)
    /\ UNCHANGED <<memvars, txvars, call, events, ticks, lasttick, born, other, idle>>

CodecNext ==
    \/ WriteRegister
    \/ WriteRegisterOrMask
    \/ WriteRegisterAndMask
    \/ ReadRegister
    \/ ReadEeprom

SpecCodec == TxInit /\ [][CodecNext]_vars

CodecWrites == {"writeRegister", "writeRegisterOrMask", "writeRegisterAndMask"}

ByteOf(num32, i) ==
    CASE i = 0 -> num32.lo % 256
      [] i = 1 -> (num32.lo \div 256) % 256
      [] i = 2 -> num32.hi % 256
      [] i = 3 -> (num32.hi \div 256) % 256

OpcodeOf(fn) ==
    CASE fn = "writeRegister" -> 0
      [] fn = "writeRegisterOrMask" -> 1
      [] fn = "writeRegisterAndMask" -> 2

\* C25: register values travel as 32 bits, least significant byte first:
\* a write function sends [opcode, addr, b0, b1, b2, b3] with b_i byte i of
\* the value and opcode 0x00, 0x01 (OR mask) or 0x02 (AND mask); readRegister
\* returns b0 + 256*b1 + 65536*b2 + 16777216*b3 of the four reply bytes; and
\* what writeRegister wrote, readRegister reads back.
RegisterRoundTrip ==
    /\ spi.fn \in CodecWrites =>
          spi.xfers[1].tx = <<OpcodeOf(spi.fn), spi.address, ByteOf(spi.arg, 0),
                              ByteOf(spi.arg, 1), ByteOf(spi.arg, 2),
                              ByteOf(spi.arg, 3)>>
    /\ spi.fn = "readRegister" /\ spi.status = "returned" =>
          LET b == spi.xfers[2].rx
          IN  /\ Len(b) = 4
              /\ spi.value.lo = b[1] + 256 * b[2]
              /\ spi.value.hi = b[3] + 256 * b[4]
              /\ \A i \in 0..3 : ByteOf(spi.value, i) = b[i + 1]
    /\ spi.fn = "writeRegister" /\ spi.status = "returned" =>
          /\ \A i \in 0..3 : sysConfig[i + 1] = ByteOf(spi.arg, i)
          /\ unpack(sysConfig) = spi.arg
    /\ \A v \in CodecValues : unpack(pack(v)) = v

\* readRegister has returned 0xFFFF0201 from SYSTEM_CONFIG
RegisterRoundTripWitness ==
    /\ spi.fn = "readRegister"
    /\ spi.address = REG_ADDR.SYSTEM_CONFIG
    /\ spi.status = "returned"
    /\ spi.value = Num32(65535, 513)
    /\ spi.xfers[2].rx = <<1, 2, 255, 255>>

\* C31: a tick whose INVENTORY returns the UID of the tracked tag, or no UID
\* while no tag is tracked, calls no further command (no
\* GET_SYSTEM_INFORMATION, no read, no write), prints no event and leaves the
\* session as it was.
SameUidTickIsQuiet ==
    [][(/\ ticks' = ticks + 1
        /\ lasttick'.inventory.status = "returned"
        /\ lasttick'.inventory.value =
              (IF tag # NoTag THEN PyList(tag.uid) ELSE PyNone))
       => /\ lasttick'.cmds = <<"inventoryCmd">>
          /\ lasttick'.info = NoCall
          /\ lasttick'.printed = <<>>
          /\ lasttick'.status = "returned"
          /\ events' = events
          /\ tag' = tag
          /\ mem' = mem
          /\ born' = born
          /\ UNCHANGED <<pc, req, wdata, wnext, rf, rs, res, lastw, writes>>]_vars

\* the second tick saw the UID of the tag the first one found, after a write
\* to that tag: one event so far, one command in the tick
SameUidTickIsQuietWitness ==
    /\ ticks = 2
    /\ tag # NoTag
    /\ lasttick.before = tag
    /\ lasttick.inventory.value = PyList(tag.uid)
    /\ lasttick.cmds = <<"inventoryCmd">>
    /\ events = <<"New tag">>
    /\ writes > 0

\* a tick that saw no UID while no tag was tracked
NoUidTickIsQuietSeen ==
    /\ ticks > 0
    /\ lasttick.before = NoTag
    /\ lasttick.inventory.value = PyNone
    /\ lasttick.cmds = <<"inventoryCmd">>

(***************************************************************************)
(* The transceive engine with a clock that advances and exchanges that     *)
(* complete: a call that is under way takes its next step.  The chip owes  *)
(* nothing: no flag of IRQ_STATUS needs ever to come.                      *)
(***************************************************************************)
\* the steps of transactionIsoIec15693 from its entry to its end
TxRun ==
    \/ TxClearIrq \/ TxSetTransceive \/ TxCheckState \/ TxSend
    \/ TxPollA \/ TxLoopA \/ TxPollB \/ TxLoopB \/ TxRxStatus \/ TxReadData
    \/ TxSetIdle

SpecTransceiveFair == SpecTransceive /\ WF_vars(TxRun)

\* the locals a step of the call changes (the steps of the chip change none)
TxLocals == <<txpc, left, irq_status, nbBytes, txlog, txres>>

\* C32: every call of transactionIsoIec15693 ends (returns or raises) when
\* the clock advances and every exchange completes; a poll loop is left at
\* the first test after its deadline even if the flag it waits for never
\* comes, and before the deadline only when the flag has come.
TransactionEnds ==
    /\ InTransaction(txpc) ~> (txpc = "done" /\ txres.status \in {"returned", "raised"})
    /\ [][(txpc \in {"loopA", "loopB"} /\ left <= 0 /\ TxLocals' # TxLocals)
             => txpc' \notin {"loopA", "loopB"}]_vars
    /\ [][(txpc = "loopA" /\ txpc' # "loopA")
             => (left <= 0 \/ ~RxNotStarted(irq_status))]_vars
    /\ [][(txpc = "loopB" /\ txpc' # "loopB")
             => (left <= 0 \/ ~RxNotComplete(irq_status))]_vars

\* a call has returned after phase B ran to its deadline without RX_IRQ_STAT
TransactionEndsWitness ==
    /\ txpc = "done"
    /\ txres.status = "returned"
    /\ InLog("IRQ_STATUS_B")
    /\ RxNotComplete(irq_status)
    /\ left <= 0

\* C33: whatever flags byte and payload the transaction returned, an error
\* flag with an empty payload (a response of one byte) included, getError and
\* the commands that call it return a (result, errorMessage) pair and do not
\* raise.
ClassificationIsTotal ==
    call.cmd \in {"getError", "inventoryCmd", "getSystemInformationCmd",
                  "writeMultipleBlocksCmd"}
        => call.status = "returned"

=============================================================================
